---- MODULE Spec2Model ----
(***************************************************************************)
(* A model of the crucible LSM key-value store: the Store facade           *)
(* (src/src/store.rs), the MemTable (src/src/memtable.rs), the WAL         *)
(* (src/src/wal.rs), the Catalog (src/src/sst/catalog.rs), the Compactor   *)
(* (src/src/compactor/compactor.rs), the merging iterator                  *)
(* (src/src/compactor/combiner.rs) and the record decoder                  *)
(* (src/src/protocol.rs).                                                  *)
(*                                                                         *)
(* Spec is the Store with its files; SpecMerge is MergeIter and            *)
(* combine_tables on arbitrary inputs; SpecCatalog is Catalog::get on      *)
(* arbitrary catalogs; SpecRead is the replay of a WAL file, byte by byte. *)
(*                                                                         *)
(* Keys and values are one-byte strings, written as small integers; the    *)
(* byte order of keys is the integer order.  A record is                   *)
(* [op, key, val]: op "E" is ReadRecord::Exists, op "D" is                 *)
(* ReadRecord::Deleted (val 0: no value bytes), op "X" stands for an       *)
(* Err item of a fallible iterator.  Option<T> is a set: {} is None and    *)
(* {x} is Some(x).                                                         *)
(***************************************************************************)
EXTENDS Integers, Sequences, FiniteSets, TLC

\* ------------------------------------------------------------- bounds
MaxKey == 3
MaxEvents == 4
MaxCrash == 1
MaxFail == 1
MaxL0Files == 3
MaxL1Files == 4
MaxLevel0FileLimit == 2
WalSizeLimit == 25
TableSizeLimit == 23
SmallTableSizeLimit == 12
MaxInputs == 2
MaxInputLen == 2
MaxTables == 2
MaxWalRecords == 2
MaxStrLen == 2
MaxByte == 2
MaxOutputs == 4
MaxPuts == 6

\* --------------------------------------------------- program constants
HeaderLen == 9
ExistsOpByte == 48
DeletedOpByte == 49

Keys == 1..MaxKey
Vals == 1..MaxEvents

Exists(k, v) == [op |-> "E", key |-> k, val |-> v]
Deleted(k) == [op |-> "D", key |-> k, val |-> 0]
ErrItem == [op |-> "X", key |-> 0, val |-> 0]

\* WriteRecord::write_to / ReadRecord::write_to: the number of bytes written.
RecSize(r) == HeaderLen + 1 + (IF r.op = "E" THEN 1 ELSE 0)

Range(s) == {s[i] : i \in 1..Len(s)}

Max(S) == CHOOSE x \in S : \A y \in S : y <= x
Min(S) == CHOOSE x \in S : \A y \in S : x <= y

\* The keys of S in ascending order (sort_unstable_by_key on unique keys).
SortedKeys(S) ==
    CHOOSE s \in [1..Cardinality(S) -> S] :
        \A i, j \in 1..Cardinality(S) : i < j => s[i] < s[j]

\* ----------------------------------------------------------- MemTable
MemTable_new == << >>

MemTable_put(mt, k, v) == [x \in (DOMAIN mt) \cup {k} |-> IF x = k THEN v ELSE mt[x]]

MemTable_get(mt, k) == IF k \in DOMAIN mt THEN {mt[k]} ELSE {}

MemTable_del(mt, k) == [x \in (DOMAIN mt) \ {k} |-> mt[x]]

\* From<wal::Wal> for MemTable: replay the log into an empty memtable.
RECURSIVE MemTable_from(_, _)
MemTable_from(log, mt) ==
    IF log = << >> THEN mt
    ELSE MemTable_from(Tail(log),
                       IF Head(log).op = "E"
                       THEN MemTable_put(mt, Head(log).key, Head(log).val)
                       ELSE MemTable_del(mt, Head(log).key))

\* The records a memtable hands to Catalog::write_records, sorted by key.
SortedRecords(mt) ==
    LET ks == SortedKeys(DOMAIN mt)
    IN  [i \in 1..Len(ks) |-> Exists(ks[i], mt[ks[i]])]

\* -------------------------------------------------------------- Table
\* A table file is [name, recs, st]: st "ok" is a complete table, "empty" a
\* zero-length file, "torn" a file with no well-formed footer.
TableFile(n, recs, st) == [name |-> n, recs |-> recs, st |-> st]

Table_get(t, k) == {t.recs[i] : i \in {j \in 1..Len(t.recs) : t.recs[j].key = k}}

Table_key_start(t) == t.recs[1].key
Table_key_end(t) == t.recs[Len(t.recs)].key

\* ------------------------------------------------------------ Catalog
NoCatalog == [some |-> FALSE, l0 |-> << >>, l1 |-> << >>, watermark |-> 0]

\* A variant of the inner loop of Catalog::get that iterates the tables of a level
\* from first-stored to last-stored.
Level_get_mut(level, k) ==
    LET hits == {i \in 1..Len(level) : Table_get(level[i], k) # {}}
    IN  IF hits = {} THEN {} ELSE Table_get(level[Min(hits)], k)

\* Catalog::get on one level: tables from last-stored to first-stored.
Level_get(level, k) ==
    LET hits == {i \in 1..Len(level) : Table_get(level[i], k) # {}}
    IN  IF hits = {} THEN {} ELSE Table_get(level[Max(hits)], k)

Catalog_get(cat, k) ==
    IF Level_get(cat.l0, k) # {} THEN Level_get(cat.l0, k) ELSE Level_get(cat.l1, k)

\* Level 0 of a directory listing, sorted ascending by the integer file stem.
SortedLevel0(files) ==
    LET ns == SortedKeys({f.name : f \in files})
    IN  [i \in 1..Len(ns) |-> CHOOSE f \in files : f.name = ns[i]]

\* Every order in which read_dir may list the files of a level >= 1.
DirOrders(files) ==
    {s \in [1..Cardinality(files) -> files] :
        \A i, j \in 1..Cardinality(files) : i # j => s[i] # s[j]}

\* ---------------------------------------------------------- MergeIter
\* A merge input (CombineTable) is [recs, level, seq]: the items its iterator
\* yields, its level and its Option<u32> sequence.  A MergeIter is
\* [ins, pos, heap]: pos[i] is the index in ins[i].recs of the item IterBuf i
\* buffers (past the end: buf is None), heap the IterBufs the BinaryHeap holds.
Input(recs, level, seq) == [recs |-> recs, level |-> level, seq |-> seq]

Buf(m, i) == IF m.pos[i] <= Len(m.ins[i].recs) THEN {m.ins[i].recs[m.pos[i]]} ELSE {}

BufKey(m, i) == m.ins[i].recs[m.pos[i]].key

\* The item the underlying iterator of IterBuf i yields next: {} once exhausted.
NextItem(m, i) ==
    IF m.pos[i] + 1 <= Len(m.ins[i].recs) THEN {m.ins[i].recs[m.pos[i] + 1]} ELSE {}

\* A variant of IterBuf::cmp that takes the higher level for the newer one.
IterBuf_cmp_mut(m, i, j) ==
    IF Buf(m, i) # {} /\ Buf(m, j) # {}
    THEN IF BufKey(m, j) # BufKey(m, i)
         THEN (IF BufKey(m, j) < BufKey(m, i) THEN "Less" ELSE "Greater")
         ELSE IF m.ins[i].level # m.ins[j].level
         THEN (IF m.ins[i].level < m.ins[j].level THEN "Less" ELSE "Greater")
         ELSE IF m.ins[i].seq # {} /\ m.ins[j].seq # {}
         THEN LET ss == CHOOSE x \in m.ins[i].seq : TRUE
                  os == CHOOSE x \in m.ins[j].seq : TRUE
              IN  IF ss < os THEN "Less" ELSE IF ss = os THEN "Equal" ELSE "Greater"
         ELSE "Unreachable"
    ELSE IF Buf(m, i) # {} THEN "Greater"
    ELSE IF Buf(m, j) # {} THEN "Less"
    ELSE "Equal"

\* Ord for IterBuf: self is i, other is j.
IterBuf_cmp(m, i, j) ==
    IF Buf(m, i) # {} /\ Buf(m, j) # {}
    THEN IF BufKey(m, j) # BufKey(m, i)
         THEN (IF BufKey(m, j) < BufKey(m, i) THEN "Less" ELSE "Greater")
         ELSE IF m.ins[i].level # m.ins[j].level
         THEN (IF m.ins[j].level < m.ins[i].level THEN "Less" ELSE "Greater")
         ELSE IF m.ins[i].seq # {} /\ m.ins[j].seq # {}
         THEN LET ss == CHOOSE x \in m.ins[i].seq : TRUE
                  os == CHOOSE x \in m.ins[j].seq : TRUE
              IN  IF ss < os THEN "Less" ELSE IF ss = os THEN "Equal" ELSE "Greater"
         ELSE "Unreachable"
    ELSE IF Buf(m, i) # {} THEN "Greater"
    ELSE IF Buf(m, j) # {} THEN "Less"
    ELSE "Equal"

\* The BinaryHeap has to order two of its greatest elements that IterBuf::cmp
\* cannot order: the unreachable!() of IterBuf::cmp is executed.
HeapPanics(m) ==
    \E i, j \in m.heap :
        /\ i # j
        /\ IterBuf_cmp(m, i, j) = "Unreachable"
        /\ \A x \in m.heap : IterBuf_cmp(m, x, i) # "Greater"

\* BinaryHeap::peek / pop: a greatest element.
HeapTop(m) ==
    CHOOSE i \in m.heap : \A j \in m.heap \ {i} : IterBuf_cmp(m, i, j) \in {"Greater", "Equal"}

\* MergeIter::new and one push_iter per input: push_iter returns the Err its
\* iterator yields first, and pushes an IterBuf whose buf is None for an empty one.
RECURSIVE PushAll(_, _)
PushAll(m, i) ==
    IF i > Len(m.ins) THEN [m |-> m, kind |-> "Ok"]
    ELSE IF Buf(m, i) # {} /\ m.ins[i].recs[1].op = "X" THEN [m |-> m, kind |-> "Err"]
    ELSE PushAll([m EXCEPT !.heap = @ \cup {i}], i + 1)

MergeIter_new(ins) ==
    PushAll([ins |-> ins, pos |-> [i \in 1..Len(ins) |-> 1], heap |-> {}], 1)

\* A variant of the while-let loop that leaves the other IterBufs of the emitted
\* key in the heap.
ClearSameKey_mut(m, key) == [m |-> m, kind |-> "Ok"]

\* The while-let loop of MergeIter::next: every IterBuf whose buffered key is the
\* emitted key is popped, advanced by one and pushed back unless exhausted.
RECURSIVE ClearSameKey(_, _)
ClearSameKey(m, key) ==
    IF m.heap = {} THEN [m |-> m, kind |-> "Ok"]
    ELSE IF HeapPanics(m) THEN [m |-> m, kind |-> "Panic"]
    ELSE LET nn == HeapTop(m)
             popped == [m EXCEPT !.heap = @ \ {nn}]
         IN  IF Buf(m, nn) = {} THEN [m |-> m, kind |-> "Panic"]
             ELSE IF BufKey(m, nn) # key THEN [m |-> m, kind |-> "Ok"]
             ELSE IF NextItem(m, nn) = {} THEN ClearSameKey(popped, key)
             ELSE IF m.ins[nn].recs[m.pos[nn] + 1].op = "X"
             THEN [m |-> [popped EXCEPT !.pos[nn] = @ + 1], kind |-> "Err"]
             ELSE ClearSameKey([m EXCEPT !.pos[nn] = @ + 1], key)

\* A variant of MergeIter::next in which a buffered Exists record of the same key
\* wins over a Deleted record of the newest input.
MergeIter_next_mut(m) ==
    IF m.heap = {} THEN [m |-> m, kind |-> "None", rec |-> ErrItem]
    ELSE IF HeapPanics(m) THEN [m |-> m, kind |-> "Panic", rec |-> ErrItem]
    ELSE LET n == HeapTop(m)
             m1 == [m EXCEPT !.heap = @ \ {n}]
         IN  IF Buf(m, n) = {} THEN [m |-> m1, kind |-> "Panic", rec |-> ErrItem]
             ELSE LET top == m.ins[n].recs[m.pos[n]]
                      older == {m.ins[i].recs[m.pos[i]] :
                                   i \in {j \in m.heap \ {n} :
                                              /\ Buf(m, j) # {}
                                              /\ BufKey(m, j) = top.key
                                              /\ m.ins[j].recs[m.pos[j]].op = "E"}}
                      record == IF top.op = "D" /\ older # {}
                                THEN CHOOSE x \in older : TRUE
                                ELSE top
                      c == ClearSameKey(m1, record.key)
                  IN  IF c.kind # "Ok" THEN [m |-> c.m, kind |-> c.kind, rec |-> ErrItem]
                      ELSE IF NextItem(m, n) = {}
                      THEN [m |-> c.m, kind |-> "Ok", rec |-> record]
                      ELSE IF m.ins[n].recs[m.pos[n] + 1].op = "X"
                      THEN [m |-> [c.m EXCEPT !.pos[n] = @ + 1], kind |-> "Err",
                            rec |-> ErrItem]
                      ELSE [m |-> [c.m EXCEPT !.pos[n] = @ + 1, !.heap = @ \cup {n}],
                            kind |-> "Ok", rec |-> record]

\* MergeIter::next: [m, kind, rec] with kind "None", "Ok" (rec is the record),
\* "Err" or "Panic".
MergeIter_next(m) ==
    IF m.heap = {} THEN [m |-> m, kind |-> "None", rec |-> ErrItem]
    ELSE IF HeapPanics(m) THEN [m |-> m, kind |-> "Panic", rec |-> ErrItem]
    ELSE LET n == HeapTop(m)
             m1 == [m EXCEPT !.heap = @ \ {n}]
         IN  IF Buf(m, n) = {} THEN [m |-> m1, kind |-> "Panic", rec |-> ErrItem]
             ELSE LET record == m.ins[n].recs[m.pos[n]]
                      c == ClearSameKey(m1, record.key)
                  IN  IF c.kind # "Ok" THEN [m |-> c.m, kind |-> c.kind, rec |-> ErrItem]
                      ELSE IF NextItem(m, n) = {}
                      THEN [m |-> c.m, kind |-> "Ok", rec |-> record]
                      ELSE IF m.ins[n].recs[m.pos[n] + 1].op = "X"
                      THEN [m |-> [c.m EXCEPT !.pos[n] = @ + 1], kind |-> "Err",
                            rec |-> ErrItem]
                      ELSE [m |-> [c.m EXCEPT !.pos[n] = @ + 1, !.heap = @ \cup {n}],
                            kind |-> "Ok", rec |-> record]

\* ------------------------------------------------------ combine_tables
PanicItem == [op |-> "P", key |-> 0, val |-> 0]

\* What merge.next() yields call after call, up to and including the first Err
\* or panic, which ends combine_tables.
RECURSIVE MergeStream(_)
MergeStream(m) ==
    LET r == MergeIter_next(m)
    IN  IF r.kind = "None" THEN << >>
        ELSE IF r.kind = "Ok" THEN <<r.rec>> \o MergeStream(r.m)
        ELSE IF r.kind = "Err" THEN <<ErrItem>>
        ELSE <<PanicItem>>

\* The inner loop of combine_tables: records are taken while written < size_limit.
RECURSIVE TakeRecords(_, _, _)
TakeRecords(s, written, limit) ==
    IF written < limit /\ s # << >> /\ Head(s).op \in {"E", "D"}
    THEN LET t == TakeRecords(Tail(s), written + RecSize(Head(s)), limit)
         IN  [recs |-> <<Head(s)>> \o t.recs, rest |-> t.rest, written |-> t.written]
    ELSE [recs |-> << >>, rest |-> s, written |-> written]

\* A variant of combine_tables that returns Ok(()) after its first output table.
CombineStep_mut(s, limit) ==
    LET t == TakeRecords(s, 0, limit)
    IN  [recs |-> t.recs, st |-> "ok", rest |-> t.rest, kind |-> "Done"]

\* One iteration of the outer loop of combine_tables on the stream s of the
\* merge: [recs, st, rest, kind].  The file holds recs in state st; kind is
\* "More" (the loop goes on), "Done" (Ok(()) is returned), "Err" or "Panic".
CombineStep(s, limit) ==
    LET t == TakeRecords(s, 0, limit)
        cut == t.written < limit /\ t.rest # << >>
        part == IF t.recs = << >> THEN "empty" ELSE "torn"
    IN  IF s # << >> /\ Head(s).op = "X"
        THEN [recs |-> << >>, st |-> "empty", rest |-> Tail(s), kind |-> "Err"]
        ELSE IF s # << >> /\ Head(s).op = "P"
        THEN [recs |-> << >>, st |-> "empty", rest |-> Tail(s), kind |-> "Panic"]
        ELSE IF cut /\ Head(t.rest).op = "X"
        THEN [recs |-> t.recs, st |-> part, rest |-> Tail(t.rest), kind |-> "Err"]
        ELSE IF cut
        THEN [recs |-> t.recs, st |-> part, rest |-> Tail(t.rest), kind |-> "Panic"]
        ELSE IF t.rest = << >>
        THEN [recs |-> t.recs, st |-> "ok", rest |-> << >>, kind |-> "Done"]
        ELSE IF Head(t.rest).op = "P"
        THEN [recs |-> t.recs, st |-> "ok", rest |-> t.rest, kind |-> "Panic"]
        ELSE [recs |-> t.recs, st |-> "ok", rest |-> t.rest, kind |-> "More"]

\* combine_tables on the stream s of the merge: the turns of its outer loop, one
\* output file each, up to the turn that returns.
RECURSIVE CombineTables(_, _)
CombineTables(s, limit) ==
    LET c == CombineStep(s, limit)
    IN  IF c.kind = "More" THEN <<c>> \o CombineTables(c.rest, limit) ELSE <<c>>

\* ---------------------------------------------------------- Compactor
\* The level-0 part of compact_level_0: the union [key_start, key_end] of the
\* level-0 ranges ({} while unset).
Level0Range(l0) ==
    IF l0 = << >> THEN {}
    ELSE {[lo |-> Min({Table_key_start(l0[i]) : i \in 1..Len(l0)}),
           hi |-> Max({Table_key_end(l0[i]) : i \in 1..Len(l0)})]}

\* The test compact_level_0 applies to a level-1 table.
Selected(t, lo, hi) ==
    \/ Table_key_start(t) >= lo /\ Table_key_start(t) <= hi
    \/ Table_key_end(t) >= lo /\ Table_key_end(t) <= hi

\* The level-1 tables compact_level_0 selects, in stored order.
SelectLevel1(l1, lo, hi) == SelectSeq(l1, LAMBDA t : Selected(t, lo, hi))

\* tables_to_combine: level-0 table i (from 0, oldest first) with sequence
\* Some(i), then the selected level-1 tables with sequence None.
TablesToCombine(l0, l1) ==
    LET r == CHOOSE x \in Level0Range(l0) : TRUE
        sel == SelectLevel1(l1, r.lo, r.hi)
    IN  [i \in 1..Len(l0) |-> Input(l0[i].recs, 0, {i - 1})]
        \o [i \in 1..Len(sel) |-> Input(sel[i].recs, 1, {})]

\* A variant of tables_to_delete that holds the level-0 paths only.
TablesToDelete_mut(l0, l1) == [i \in 1..Len(l0) |-> [level |-> 0, name |-> l0[i].name]]

\* tables_to_delete: the paths [level, name] of the same tables.
TablesToDelete(l0, l1) ==
    LET r == CHOOSE x \in Level0Range(l0) : TRUE
        sel == SelectLevel1(l1, r.lo, r.hi)
    IN  [i \in 1..Len(l0) |-> [level |-> 0, name |-> l0[i].name]]
        \o [i \in 1..Len(sel) |-> [level |-> 1, name |-> sel[i].name]]

\* The inputs of a compaction as a set of paths: every level-0 table and every
\* level-1 table the range test selects.
CompactionInputs(l0, l1) ==
    LET r == CHOOSE x \in Level0Range(l0) : TRUE
    IN  {[level |-> 0, name |-> l0[i].name] : i \in 1..Len(l0)}
        \cup {[level |-> 1, name |-> l1[i].name] :
                  i \in {j \in 1..Len(l1) : Selected(l1[j], r.lo, r.hi)}}

\* ============================================================== state
VARIABLES
    pc,        \* "down": no process; "idle": a Store between calls; else the step a call is at
    memtable,  \* Store.memtable
    walFile,   \* the records of data.wal, on disk
    walSize,   \* the bytes Store.wal wrote since it was opened
    disk0,     \* the files of <data_dir>/0
    disk1,     \* the files of <data_dir>/1
    catalog,   \* Store.catalog: Option<Catalog>
    limit0,    \* Compactor.level_0_file_limit
    table_size_limit, \* Compactor.table_size_limit
    comp,      \* compact_level_0 in progress: the merge stream left, the paths to delete
    ev,        \* what the last step did
    ref,       \* the reference store: per key, what get is expected to return
    snap,      \* get of every key as observed before the last flush or crash
    csnap,     \* Catalog::get of every key as observed before the last compaction, and
               \* whether the process was killed during that compaction
    crashes,   \* how many times the process was killed
    fails,     \* how many I/O calls returned an error
    mi,        \* a MergeIter under test
    emitted,   \* the items MergeIter::next returned so far
    mdone,     \* how the MergeIter under test ended
    got,       \* a Catalog::get under test: the key asked for and the record returned
    rd,        \* a WAL reader under test: the file, the position, the items returned
    dec,       \* a record under test: what write_to wrote and read_from returned
    tb         \* a table under test: its file, the Table opened on it, its readers

storeVars == <<pc, memtable, walFile, walSize, disk0, disk1, catalog, limit0,
               table_size_limit, comp, ev, ref, snap, csnap, crashes, fails>>
mergeVars == <<mi, emitted, mdone>>
testVars == <<got, rd, dec, tb>>
vars == <<pc, memtable, walFile, walSize, disk0, disk1, catalog, limit0,
          table_size_limit, comp, ev, ref, snap, csnap, crashes, fails, mi, emitted, mdone,
          got, rd, dec, tb>>

\* The events of a behaviour that the bounds count: the records appended to the
\* WAL, the kills of the process and the I/O errors.
Events == Len(walFile) + crashes + fails

\* An I/O call returns an error, or none does.
Fail == Events < MaxEvents /\ fails < MaxFail /\ fails' = fails + 1
NoFail == fails' = fails

NoComp == [stream |-> << >>, dels |-> << >>, ins |-> {}, outs |-> {}, ran |-> FALSE]
NoSnap == [at |-> "none", get |-> [k \in Keys |-> {}]]
NoCSnap == [on |-> FALSE, crashed |-> FALSE, get |-> [k \in Keys |-> {}]]
NoMerge == [ins |-> << >>, pos |-> << >>, heap |-> {}]
NoGot == [key |-> 0, res |-> {}]
NoReader ==
    [log |-> << >>, since |-> 0, bytes |-> << >>, pos |-> 0, err |-> FALSE, out |-> << >>,
     st |-> "off"]
NoOut == [op |-> "X", key |-> << >>, val |-> << >>]
NoRecord ==
    [op |-> "E", key |-> << >>, val |-> << >>, bytes |-> << >>, written |-> 0, bad |-> FALSE,
     out |-> NoOut, st |-> "off"]
NoTable == [st |-> "off"]

\* Store::get: the memtable first, then the catalog; a Deleted record is None.
Store_get(k) ==
    IF MemTable_get(memtable, k) # {} THEN MemTable_get(memtable, k)
    ELSE {r.val : r \in {x \in Catalog_get(catalog, k) : x.op = "E"}}

Gets == [k \in Keys |-> Store_get(k)]

\* Catalog::new: every catalog it may build from the directory, one per order of
\* level 1; it panics on a file that does not open as a Table.
Catalog_new_panics(d0, d1) == \E f \in d0 \cup d1 : f.st # "ok"

Catalog_new(d0, d1) ==
    {[some |-> TRUE, l0 |-> SortedLevel0(d0), l1 |-> o,
      watermark |-> IF d0 = {} THEN 0 ELSE Max({f.name : f \in d0})] : o \in DirOrders(d1)}

\* A variant of write_records that returns Ok without the table file.
Catalog_write_records_mut(cat, d0, recs) ==
    [kind |-> "Ok",
     cat |-> [cat EXCEPT !.l0 = Append(@, TableFile(cat.watermark + 1, recs, "ok")),
                         !.watermark = @ + 1],
     d0 |-> d0]

\* Catalog::write_records: [kind, cat, d0].  The file <watermark+1>.sst is opened
\* with append and create; the footer's expect panics on no records.  In a file
\* that already holds bytes the table follows them, its offsets no longer those
\* of the file, and Table::new returns Err.
Catalog_write_records(cat, d0, recs) ==
    LET name == cat.watermark + 1
        old == {f \in d0 : f.name = name}
        new == TableFile(name, recs, "ok")
    IN  IF recs = << >>
        THEN [kind |-> "Panic", cat |-> cat,
              d0 |-> IF old = {} THEN d0 \cup {TableFile(name, << >>, "empty")} ELSE d0]
        ELSE IF \A f \in old : f.st = "empty"
        THEN [kind |-> "Ok",
              cat |-> [cat EXCEPT !.l0 = Append(@, new), !.watermark = @ + 1],
              d0 |-> (d0 \ old) \cup {new}]
        ELSE [kind |-> "Err", cat |-> cat,
              d0 |-> (d0 \ old) \cup {TableFile(name, recs, "torn")}]

\* What a write_records that returns an I/O error leaves in level 0: nothing new
\* (create_dir_all or open failed), the file <watermark+1>.sst with no bytes or
\* with part of the table (a write or the flush failed), or with the whole table
\* (sync_all or the open of Table::new failed).  The catalog is not changed.
WriteFailures(cat, d0, recs) ==
    LET name == cat.watermark + 1
        old == {f \in d0 : f.name = name}
    IN  {d0} \cup
        (IF recs = << >> \/ \E f \in old : f.st # "empty" THEN {}
         ELSE {(d0 \ old) \cup {TableFile(name, IF st = "empty" THEN << >> ELSE recs, st)} :
                  st \in {"empty", "torn", "ok"}})

\* The process ends (a panic or a crash): what it held in memory is gone.
ProcessGone ==
    /\ pc' = "down"
    /\ memtable' = MemTable_new
    /\ walSize' = 0
    /\ catalog' = NoCatalog
    /\ comp' = NoComp

Init ==
    /\ pc = "down"
    /\ memtable = MemTable_new
    /\ walFile = << >>
    /\ walSize = 0
    /\ disk0 = {}
    /\ disk1 = {}
    /\ catalog = NoCatalog
    /\ limit0 \in 1..MaxLevel0FileLimit
    /\ table_size_limit \in {SmallTableSizeLimit, TableSizeLimit}
    /\ comp = NoComp
    /\ ev = "init"
    /\ ref = [k \in Keys |-> {}]
    /\ snap = NoSnap
    /\ csnap = NoCSnap
    /\ crashes = 0
    /\ fails = 0
    /\ mi = NoMerge
    /\ emitted = << >>
    /\ mdone = "off"
    /\ got = NoGot
    /\ rd = NoReader
    /\ dec = NoRecord
    /\ tb = NoTable

\* ================================================================ WAL
\* Wal::new: the file is opened with append and create; the writer starts at size 0.
Wal_new ==
    /\ walSize' = 0
    /\ walFile' = walFile

\* Wal::append: the encoded record goes to the end of the file and is synced.
Wal_append(rec) ==
    /\ walFile' = Append(walFile, rec)
    /\ walSize' = walSize + RecSize(rec)

\* ============================================================== Store
\* A variant of the replay that takes the first record it cannot read for the
\* end of the log.
Replay_mut(log) ==
    LET bad == {i \in DOMAIN log : log[i].op = "X"}
    IN  [kind |-> "Ok",
         mt |-> MemTable_from(IF bad = {} THEN log ELSE SubSeq(log, 1, Min(bad) - 1),
                              MemTable_new)]

\* The replay of Store::new: the items of the WAL reader are collected into a
\* Result<MemTable, io::Error>, which is the first Err if there is one.  An item
\* "X" of the log is a record the reader returns Err for: a torn tail.
Replay(log) ==
    IF \E i \in DOMAIN log : log[i].op = "X"
    THEN [kind |-> "Err", mt |-> MemTable_new]
    ELSE [kind |-> "Ok", mt |-> MemTable_from(log, MemTable_new)]

\* The StoreError of Store::new for the step that failed.
StoreError(e) ==
    IF e \in {"replay_err", "write_err"} THEN "WalRecovery"
    ELSE IF e = "wal_open_err" THEN "WalInitialization"
    ELSE IF e = "catalog_err" THEN "CatalogInitialization"
    ELSE "None"

\* Store::new up to the WAL writer: Catalog::new (it panics on a file that does
\* not open as a Table and returns the Err of a read_dir that fails), then the
\* left-over WAL is replayed into a memtable that write_records flushes to level 0.
StoreNew ==
    /\ pc = "down"
    /\ UNCHANGED <<memtable, walFile, walSize, disk1, limit0, comp, ref, snap, csnap>>
    /\ UNCHANGED <<table_size_limit, crashes, mi, emitted, mdone, got, rd, dec, tb>>
    /\ \/ /\ Catalog_new_panics(disk0, disk1)
          /\ ev' = "new_panic"
          /\ NoFail
          /\ UNCHANGED <<pc, catalog, disk0>>
       \/ /\ ev' = "catalog_err"
          /\ Fail
          /\ UNCHANGED <<pc, catalog, disk0>>
       \/ /\ ~Catalog_new_panics(disk0, disk1)
          /\ walFile = << >>
          /\ \E c \in Catalog_new(disk0, disk1) : catalog' = c
          /\ pc' = "n_wal"
          /\ ev' = "catalog_new"
          /\ NoFail
          /\ UNCHANGED disk0
       \/ /\ ~Catalog_new_panics(disk0, disk1)
          /\ walFile # << >>
          /\ \/ Replay(walFile).kind = "Err" /\ NoFail
             \/ Fail
          /\ ev' = "replay_err"
          /\ UNCHANGED <<pc, catalog, disk0>>
       \/ /\ ~Catalog_new_panics(disk0, disk1)
          /\ walFile # << >>
          /\ Replay(walFile).kind = "Ok"
          /\ \E c \in Catalog_new(disk0, disk1) :
                LET w == Catalog_write_records(c, disk0, SortedRecords(Replay(walFile).mt))
                IN  \/ /\ w.kind = "Ok"
                       /\ Cardinality(disk0) < MaxL0Files
                       /\ catalog' = w.cat
                       /\ disk0' = w.d0
                       /\ pc' = "n_wal"
                       /\ ev' = "write_ok"
                       /\ NoFail
                    \/ /\ w.kind = "Panic"
                       /\ disk0' = w.d0
                       /\ ev' = "new_panic"
                       /\ NoFail
                       /\ UNCHANGED <<pc, catalog>>
                    \/ /\ \E d \in WriteFailures(c, disk0, SortedRecords(Replay(walFile).mt)) :
                             Cardinality(d) <= MaxL0Files /\ disk0' = d
                       /\ ev' = "write_err"
                       /\ Fail
                       /\ UNCHANGED <<pc, catalog>>

\* Store::new from the WAL writer on: Wal::new, then the Store is built.
StoreNewWal ==
    /\ pc = "n_wal"
    /\ UNCHANGED <<disk0, disk1, limit0, comp, ref, snap, csnap>>
    /\ UNCHANGED <<table_size_limit, crashes, mi, emitted, mdone, got, rd, dec, tb>>
    /\ \/ /\ Wal_new
          /\ memtable' = MemTable_new
          /\ pc' = "idle"
          /\ ev' = "wal_open"
          /\ NoFail
          /\ UNCHANGED catalog
       \/ /\ pc' = "down"
          /\ catalog' = NoCatalog
          /\ ev' = "wal_open_err"
          /\ Fail
          /\ UNCHANGED <<memtable, walFile, walSize>>

\* wal.size(): the bytes the writer wrote since it was opened.
Wal_size == walSize

\* A variant of Store::exec_wal with the comparison the wrong way round.
Store_exec_wal_mut == pc' = IF walSize' < WalSizeLimit THEN "f_write" ELSE "idle"

\* Store::exec_wal after f(self) returned Ok: flush_memtable runs when the
\* writer's size exceeds the limit.
Store_exec_wal == pc' = IF walSize' > WalSizeLimit THEN "f_write" ELSE "idle"

\* The value of the next put: one that no earlier put wrote.
NextVal == Len(walFile) + 1

\* A variant of Store::put that mutates the memtable before it looks at the
\* result of the append.
Store_put_mut(k, v) ==
    /\ pc = "idle"
    /\ Events < MaxEvents
    /\ UNCHANGED <<disk0, disk1, catalog, limit0, comp, csnap>>
    /\ UNCHANGED <<table_size_limit, crashes, mi, emitted, mdone, got, rd, dec, tb>>
    /\ memtable' = MemTable_put(memtable, k, v)
    /\ \/ /\ Wal_append(Exists(k, v))
          /\ ref' = [ref EXCEPT ![k] = {v}]
          /\ snap' = NoSnap
          /\ ev' = "put"
          /\ NoFail
          /\ Store_exec_wal
       \/ /\ ev' = "append_err"
          /\ Fail
          /\ UNCHANGED <<pc, walFile, walSize, ref, snap>>

\* Store::put
Store_put(k, v) ==
    /\ pc = "idle"
    /\ Events < MaxEvents
    /\ UNCHANGED <<disk0, disk1, catalog, limit0, comp, csnap>>
    /\ UNCHANGED <<table_size_limit, crashes, mi, emitted, mdone, got, rd, dec, tb>>
    /\ \/ /\ Wal_append(Exists(k, v))
          /\ memtable' = MemTable_put(memtable, k, v)
          /\ ref' = [ref EXCEPT ![k] = {v}]
          /\ snap' = NoSnap
          /\ ev' = "put"
          /\ NoFail
          /\ Store_exec_wal
       \/ /\ ev' = "append_err"
          /\ Fail
          /\ UNCHANGED <<pc, memtable, walFile, walSize, ref, snap>>

\* Store::del
Store_del(k) ==
    /\ pc = "idle"
    /\ Events < MaxEvents
    /\ UNCHANGED <<disk0, disk1, catalog, limit0, comp, csnap>>
    /\ UNCHANGED <<table_size_limit, crashes, mi, emitted, mdone, got, rd, dec, tb>>
    /\ \/ /\ Wal_append(Deleted(k))
          /\ memtable' = MemTable_del(memtable, k)
          /\ ref' = [ref EXCEPT ![k] = {}]
          /\ snap' = NoSnap
          /\ ev' = "del"
          /\ NoFail
          /\ Store_exec_wal
       \/ /\ ev' = "append_err"
          /\ Fail
          /\ UNCHANGED <<pc, memtable, walFile, walSize, ref, snap>>

\* Store::flush_memtable, step 1: catalog.write_records(&self.memtable)?
FlushWrite ==
    /\ pc \in {"idle", "f_write"}
    /\ UNCHANGED <<walFile, disk1, limit0, ref>>
    /\ UNCHANGED <<table_size_limit, crashes, mi, emitted, mdone, got, rd, dec, tb>>
    /\ csnap' = NoCSnap
    /\ \/ /\ ~catalog.some
          /\ ProcessGone
          /\ ev' = "panic"
          /\ NoFail
          /\ snap' = NoSnap
          /\ UNCHANGED disk0
       \/ /\ catalog.some
          /\ LET w == Catalog_write_records(catalog, disk0, SortedRecords(memtable))
             IN  \/ /\ w.kind = "Ok"
                    /\ Cardinality(disk0) < MaxL0Files
                    /\ catalog' = w.cat
                    /\ disk0' = w.d0
                    /\ pc' = "f_wal"
                    /\ ev' = "write_ok"
                    /\ NoFail
                    /\ snap' = [at |-> "flush", get |-> Gets]
                    /\ UNCHANGED <<memtable, walSize, comp>>
                 \/ /\ w.kind = "Panic"
                    /\ ProcessGone
                    /\ disk0' = w.d0
                    /\ ev' = "panic"
                    /\ NoFail
                    /\ snap' = NoSnap
                 \/ /\ w.kind = "Err"
                    /\ disk0' = w.d0
                    /\ pc' = "idle"
                    /\ ev' = "write_err"
                    /\ NoFail
                    /\ snap' = NoSnap
                    /\ UNCHANGED <<memtable, walSize, catalog, comp>>
                 \/ /\ w.kind # "Err"
                    /\ \E d \in WriteFailures(catalog, disk0, SortedRecords(memtable)) :
                          Cardinality(d) <= MaxL0Files /\ disk0' = d
                    /\ pc' = "idle"
                    /\ ev' = "write_err"
                    /\ Fail
                    /\ snap' = NoSnap
                    /\ UNCHANGED <<memtable, walSize, catalog, comp>>

\* Store::flush_memtable, steps 2 and 3: the WAL writer is opened again and the
\* memtable replaced by an empty one.
FlushWal ==
    /\ pc = "f_wal"
    /\ UNCHANGED <<disk0, disk1, catalog, limit0, comp, ref, snap, csnap>>
    /\ UNCHANGED <<table_size_limit, crashes, mi, emitted, mdone, got, rd, dec, tb>>
    /\ \/ /\ Wal_new
          /\ memtable' = MemTable_new
          /\ pc' = "f_compact"
          /\ ev' = "wal_open"
          /\ NoFail
       \/ /\ pc' = "idle"
          /\ ev' = "wal_open_err"
          /\ Fail
          /\ UNCHANGED <<memtable, walFile, walSize>>

\* Store::flush_memtable, step 4: the catalog is taken and handed to
\* Compactor::maybe_compact, which starts compact_level_0 at the file limit.
MaybeCompact ==
    /\ pc = "f_compact"
    /\ UNCHANGED <<memtable, walFile, walSize, disk0, disk1, limit0, ref, snap>>
    /\ UNCHANGED <<table_size_limit, crashes, mi, emitted, mdone, got, rd, dec, tb>>
    /\ catalog' = NoCatalog
    /\ \/ /\ Len(catalog.l0) >= limit0
          /\ comp' = [stream |-> MergeStream(
                                     MergeIter_new(TablesToCombine(catalog.l0, catalog.l1)).m),
                      dels |-> TablesToDelete(catalog.l0, catalog.l1),
                      ins |-> CompactionInputs(catalog.l0, catalog.l1),
                      outs |-> {},
                      ran |-> TRUE]
          /\ csnap' = [on |-> TRUE, crashed |-> FALSE,
                       get |-> [k \in Keys |-> Catalog_get(catalog, k)]]
          /\ pc' = "c_write"
          /\ ev' = "compact_start"
          /\ NoFail
       \/ /\ Len(catalog.l0) < limit0
          /\ comp' = NoComp
          /\ csnap' = NoCSnap
          /\ pc' = "f_reread"
          /\ ev' = "no_compact"
          /\ NoFail

\* The name of the next output file: a token no file of level 1 has.
FreshName(files) == Min({n \in 1..(Cardinality(files) + 1) : \A f \in files : f.name # n})

\* combine_tables: one turn of its loop writes one output table to level 1.
CompactWrite ==
    /\ pc = "c_write"
    /\ UNCHANGED <<walFile, disk0, limit0, ref, snap, csnap>>
    /\ UNCHANGED <<table_size_limit, crashes, mi, emitted, mdone, got, rd, dec, tb>>
    /\ LET c == CombineStep(comp.stream, table_size_limit)
           name == FreshName(disk1)
       IN  \/ /\ c.kind = "Panic"
              /\ disk1' = disk1 \cup {TableFile(name, c.recs, c.st)}
              /\ ProcessGone
              /\ ev' = "panic"
              /\ NoFail
           \/ /\ c.kind \in {"More", "Done"}
              /\ Cardinality(disk1) < MaxL1Files
              /\ disk1' = disk1 \cup {TableFile(name, c.recs, c.st)}
              /\ comp' = [comp EXCEPT !.stream = c.rest, !.outs = @ \cup {name}]
              /\ pc' = IF c.kind = "Done" THEN "c_delete" ELSE "c_write"
              /\ ev' = "output_ok"
              /\ NoFail
              /\ UNCHANGED <<memtable, walSize, catalog>>
           \/ /\ comp' = NoComp
              /\ pc' = "idle"
              /\ ev' = "combine_err"
              /\ Fail
              /\ UNCHANGED <<memtable, walSize, catalog, disk1>>

\* compact_level_0 after combine_tables returned Ok: one fs::remove_file.
CompactDelete ==
    /\ pc = "c_delete"
    /\ UNCHANGED <<memtable, walFile, walSize, catalog, limit0, ref, snap, csnap>>
    /\ UNCHANGED <<table_size_limit, crashes, mi, emitted, mdone, got, rd, dec, tb>>
    /\ LET d == Head(comp.dels)
       IN  \/ /\ disk0' = IF d.level = 0 THEN {f \in disk0 : f.name # d.name} ELSE disk0
              /\ disk1' = IF d.level = 1 THEN {f \in disk1 : f.name # d.name} ELSE disk1
              /\ comp' = [comp EXCEPT !.dels = Tail(@)]
              /\ pc' = IF Tail(comp.dels) = << >> THEN "f_reread" ELSE "c_delete"
              /\ ev' = "delete_ok"
              /\ NoFail
           \/ /\ comp' = NoComp
              /\ pc' = "idle"
              /\ ev' = "delete_err"
              /\ Fail
              /\ UNCHANGED <<disk0, disk1>>

\* Store::flush_memtable, last step: the catalog is read again from the directory.
FlushReread ==
    /\ pc = "f_reread"
    /\ UNCHANGED <<walFile, disk0, disk1, limit0, ref, snap, csnap>>
    /\ UNCHANGED <<table_size_limit, crashes, mi, emitted, mdone, got, rd, dec, tb>>
    /\ IF Catalog_new_panics(disk0, disk1)
       THEN /\ ProcessGone
            /\ ev' = "panic"
            /\ NoFail
       ELSE /\ comp' = NoComp
            /\ pc' = "idle"
            /\ UNCHANGED <<memtable, walSize>>
            /\ \/ /\ \E c \in Catalog_new(disk0, disk1) : catalog' = c
                  /\ ev' = "flush_ok"
                  /\ NoFail
               \/ /\ catalog' = NoCatalog
                  /\ ev' = "reread_err"
                  /\ Fail

\* The process is killed: the files stay, the memory is lost.
Crash ==
    /\ pc \notin {"down", "merge"}
    /\ Events < MaxEvents
    /\ crashes < MaxCrash
    /\ crashes' = crashes + 1
    /\ ProcessGone
    /\ ev' = "crash"
    /\ NoFail
    /\ snap' = IF pc = "idle" /\ catalog.some THEN [at |-> "crash", get |-> Gets]
               ELSE IF pc = "n_wal" THEN snap
               ELSE NoSnap
    /\ csnap' = IF pc \in {"c_write", "c_delete"} THEN [csnap EXCEPT !.crashed = TRUE]
                ELSE NoCSnap
    /\ UNCHANGED <<walFile, disk0, disk1, limit0, table_size_limit, ref>>
    /\ UNCHANGED mergeVars
    /\ UNCHANGED testVars

\* The process is killed while Wal::append writes a record: the file ends in
\* the middle of that record.
CrashInAppend ==
    /\ pc = "idle"
    /\ Events < MaxEvents
    /\ crashes < MaxCrash
    /\ crashes' = crashes + 1
    /\ walFile' = Append(walFile, ErrItem)
    /\ ProcessGone
    /\ ev' = "crash"
    /\ NoFail
    /\ snap' = NoSnap
    /\ csnap' = NoCSnap
    /\ UNCHANGED <<disk0, disk1, limit0, table_size_limit, ref>>
    /\ UNCHANGED mergeVars
    /\ UNCHANGED testVars

\* The process is killed while combine_tables writes an output file: the file
\* is left with part of its records and no footer.
CrashInOutput ==
    /\ pc = "c_write"
    /\ Events < MaxEvents
    /\ crashes < MaxCrash
    /\ Cardinality(disk1) < MaxL1Files
    /\ crashes' = crashes + 1
    /\ disk1' = disk1 \cup {TableFile(FreshName(disk1),
                                      CombineStep(comp.stream, table_size_limit).recs, "torn")}
    /\ ProcessGone
    /\ ev' = "crash"
    /\ NoFail
    /\ snap' = NoSnap
    /\ csnap' = [csnap EXCEPT !.crashed = TRUE]
    /\ UNCHANGED <<walFile, disk0, limit0, table_size_limit, ref>>
    /\ UNCHANGED mergeVars
    /\ UNCHANGED testVars

Next ==
    \/ StoreNew
    \/ StoreNewWal
    \/ \E k \in Keys : Store_put(k, NextVal)
    \/ \E k \in Keys : Store_del(k)
    \/ FlushWrite
    \/ FlushWal
    \/ MaybeCompact
    \/ CompactWrite
    \/ CompactDelete
    \/ FlushReread
    \/ Crash
    \/ CrashInAppend
    \/ CrashInOutput

Spec == Init /\ [][Next]_vars

\* ==================================================== MergeIter alone
\* The inputs handed to push_iter: each is a fallible iterator that yields
\* records in strictly ascending key order and may end in an Err; input i
\* writes i as the value of its records.
AscendingKeys ==
    {ks \in UNION {[1..n -> Keys] : n \in 0..MaxInputLen} :
        \A i \in 1..(Len(ks) - 1) : ks[i] < ks[i + 1]}

RecordSeqs(v) ==
    UNION {{[i \in 1..Len(ks) |-> IF ops[i] = "E" THEN Exists(ks[i], v) ELSE Deleted(ks[i])] :
               ops \in [1..Len(ks) -> {"E", "D"}]} : ks \in AscendingKeys}

ItemSeqs(v) == RecordSeqs(v) \cup {Append(r, ErrItem) : r \in RecordSeqs(v)}

\* The (level, sequence) pairs push_iter is called with.
Tags == {[level |-> 0, seq |-> {0}], [level |-> 0, seq |-> {1}], [level |-> 1, seq |-> {}]}

RECURSIVE InputSeqs(_)
InputSeqs(n) ==
    IF n = 0 THEN {<< >>}
    ELSE {Append(ins, Input(items, t.level, t.seq)) :
             ins \in InputSeqs(n - 1), items \in ItemSeqs(n), t \in Tags}

\* The sequences of at most n inputs.
MergeInputs(n) == UNION {InputSeqs(i) : i \in 0..n}

InitMerge ==
    /\ pc = "merge"
    /\ memtable = MemTable_new
    /\ walFile = << >>
    /\ walSize = 0
    /\ disk0 = {}
    /\ disk1 = {}
    /\ catalog = NoCatalog
    /\ limit0 = 1
    /\ table_size_limit \in {SmallTableSizeLimit, TableSizeLimit}
    /\ comp = NoComp
    /\ ev = "init"
    /\ ref = [k \in Keys |-> {}]
    /\ snap = NoSnap
    /\ csnap = NoCSnap
    /\ crashes = 0
    /\ fails = 0
    /\ mi \in {[ins |-> ins, pos |-> [i \in 1..Len(ins) |-> 1], heap |-> {}] :
                  ins \in MergeInputs(MaxInputs)}
    /\ emitted = << >>
    /\ mdone = "off"
    /\ got = NoGot
    /\ rd = NoReader
    /\ dec = NoRecord
    /\ tb = NoTable

\* MergeIter::new, then push_iter for every input.
MergePush ==
    /\ pc = "merge"
    /\ mdone = "off"
    /\ LET r == MergeIter_new(mi.ins)
       IN  /\ mi' = r.m
           /\ mdone' = IF r.kind = "Ok" THEN "run" ELSE "push_err"
    /\ UNCHANGED emitted
    /\ UNCHANGED storeVars
    /\ UNCHANGED testVars

\* One call of MergeIter::next; the item it returns is appended to emitted.
MergeNext ==
    /\ pc = "merge"
    /\ mdone = "run"
    /\ LET r == MergeIter_next(mi)
       IN  /\ mi' = r.m
           /\ emitted' = IF r.kind = "Ok" THEN Append(emitted, r.rec)
                         ELSE IF r.kind = "Err" THEN Append(emitted, ErrItem)
                         ELSE emitted
           /\ mdone' = IF r.kind = "None" THEN "none"
                       ELSE IF r.kind = "Panic" THEN "panic"
                       ELSE "run"
    /\ UNCHANGED storeVars
    /\ UNCHANGED testVars

\* combine_tables called with the inputs: push_iter for each, then the output
\* tables are written to level 1 until the merge is exhausted, fails or panics.
MergeCombine ==
    /\ pc = "merge"
    /\ mdone = "off"
    /\ LET r == MergeIter_new(mi.ins)
           steps == CombineTables(MergeStream(r.m), table_size_limit)
       IN  IF r.kind = "Err"
           THEN /\ disk1' = {}
                /\ mdone' = "combine_err"
           ELSE /\ disk1' = {TableFile(i, steps[i].recs, steps[i].st) : i \in 1..Len(steps)}
                /\ mdone' = IF steps[Len(steps)].kind = "Done" THEN "combine_ok"
                            ELSE IF steps[Len(steps)].kind = "Err" THEN "combine_err"
                            ELSE "combine_panic"
    /\ UNCHANGED <<pc, memtable, walFile, walSize, disk0, catalog, limit0>>
    /\ UNCHANGED <<table_size_limit, comp, ev, ref, snap, csnap, crashes, fails>>
    /\ UNCHANGED <<mi, emitted>>
    /\ UNCHANGED testVars

NextMerge ==
    \/ MergePush
    \/ MergeNext
    \/ MergeCombine

SpecMerge == InitMerge /\ [][NextMerge]_vars

\* ================================================== Catalog::get alone
\* The catalogs Catalog::get is called on: up to m tables per level,
\* each a non-empty run of records with strictly ascending keys; the records
\* of a table carry a value of its own, so that the table a record was read
\* from is known.
RECURSIVE LevelSeqs(_, _)
LevelSeqs(n, base) ==
    IF n = 0 THEN {<< >>}
    ELSE {Append(l, TableFile(n, recs, "ok")) :
             l \in LevelSeqs(n - 1, base), recs \in RecordSeqs(base + n) \ {<< >>}}

Catalogs(m) ==
    {[some |-> TRUE, l0 |-> a, l1 |-> b, watermark |-> Len(a)] :
        a \in UNION {LevelSeqs(n, 0) : n \in 0..m},
        b \in UNION {LevelSeqs(n, m) : n \in 0..m}}

InitCatalog ==
    /\ pc = "catalog"
    /\ memtable = MemTable_new
    /\ walFile = << >>
    /\ walSize = 0
    /\ disk0 = {}
    /\ disk1 = {}
    /\ catalog \in Catalogs(MaxTables)
    /\ limit0 = 1
    /\ table_size_limit = TableSizeLimit
    /\ comp = NoComp
    /\ ev = "init"
    /\ ref = [k \in Keys |-> {}]
    /\ snap = NoSnap
    /\ csnap = NoCSnap
    /\ crashes = 0
    /\ fails = 0
    /\ mi = NoMerge
    /\ emitted = << >>
    /\ mdone = "off"
    /\ got = NoGot
    /\ rd = NoReader
    /\ dec = NoRecord
    /\ tb = NoTable

\* One call of Catalog::get(key).
CatalogGet(k) ==
    /\ pc = "catalog"
    /\ got' = [key |-> k, res |-> Catalog_get(catalog, k)]
    /\ UNCHANGED storeVars
    /\ UNCHANGED mergeVars
    /\ UNCHANGED <<rd, dec, tb>>

NextCatalog == \E k \in Keys : CatalogGet(k)

SpecCatalog == InitCatalog /\ [][NextCatalog]_vars

\* ================================================= the WAL reader alone
\* A file is the sequence of its bytes.  The one-byte key or value b is the
\* string <<b>>; ByteString writes any other string as 0.
U32le(n) == <<n % 256, (n \div 256) % 256, (n \div 65536) % 256, (n \div 16777216) % 256>>

U32from(b) == b[1] + 256 * b[2] + 65536 * b[3] + 16777216 * b[4]

ByteString(bs) == IF Len(bs) = 1 THEN bs[1] ELSE 0

\* WriteRecord::write_to: the bytes of a record.
Encode(r) ==
    <<IF r.op = "E" THEN ExistsOpByte ELSE DeletedOpByte>>
        \o U32le(1)
        \o U32le(IF r.op = "E" THEN 1 ELSE 0)
        \o <<r.key>>
        \o (IF r.op = "E" THEN <<r.val>> ELSE << >>)

RECURSIVE EncodeAll(_)
EncodeAll(log) == IF log = << >> THEN << >> ELSE Encode(Head(log)) \o EncodeAll(Tail(log))

\* What one reader.read may return for a buffer of want bytes with avail bytes
\* left in the file: at least one byte, at most what is there and asked for.
ReadSizes(avail, want) == {1, Min({avail, want})}

\* fill_buf with a buffer of which want bytes are still to fill: every outcome
\* the reads may lead to; pos is the position in the file, read the bytes
\* counted so far.  (A read that returns an error other than Interrupted is the
\* Fail of the Store.)
RECURSIVE fill_buf(_, _, _, _, _)
fill_buf(bytes, pos, want, read, trailer) ==
    IF pos = Len(bytes)
    THEN {[kind |-> IF read = trailer THEN "None" ELSE "Err", pos |-> pos]}
    ELSE UNION {IF n = want
                THEN {[kind |-> "Some", pos |-> pos + n]}
                ELSE fill_buf(bytes, pos + n, want - n, read + n, trailer) :
                    n \in ReadSizes(Len(bytes) - pos, want)}

\* A variant of read_exact that returns Ok with the bytes that are there.
read_exact_mut(bytes, pos, n) ==
    [kind |-> "Ok",
     data |-> SubSeq(bytes, pos + 1, Min({pos + n, Len(bytes)})),
     pos |-> Min({pos + n, Len(bytes)})]

\* reader.read_exact(&mut buf) for a buffer of n bytes.
read_exact(bytes, pos, n) ==
    IF Len(bytes) - pos >= n
    THEN [kind |-> "Ok", data |-> SubSeq(bytes, pos + 1, pos + n), pos |-> pos + n]
    ELSE [kind |-> "Err", data |-> << >>, pos |-> Len(bytes)]

\* ReadRecord::read_from at position pos of a file: every outcome
\* [kind, op, key, val, pos], kind "None" (Ok(None)), "Ok" (Ok(Some(record)), with
\* the op and the key and value bytes of the record), "Err" or "Panic" (invalid
\* op byte).
read_from(bytes, pos) ==
    UNION {
        IF f.kind # "Some"
        THEN {[kind |-> f.kind, op |-> "X", key |-> << >>, val |-> << >>, pos |-> f.pos]}
        ELSE LET buf == SubSeq(bytes, pos + 1, pos + HeaderLen)
                 key == read_exact(bytes, f.pos, U32from(SubSeq(buf, 2, 5)))
                 val == read_exact(bytes, key.pos, U32from(SubSeq(buf, 6, 9)))
             IN  IF key.kind = "Err"
                 THEN {[kind |-> "Err", op |-> "X", key |-> << >>, val |-> << >>,
                        pos |-> key.pos]}
                 ELSE IF buf[1] = ExistsOpByte
                 THEN IF val.kind = "Err"
                      THEN {[kind |-> "Err", op |-> "X", key |-> << >>, val |-> << >>,
                             pos |-> val.pos]}
                      ELSE {[kind |-> "Ok", op |-> "E", key |-> key.data, val |-> val.data,
                             pos |-> val.pos]}
                 ELSE IF buf[1] = DeletedOpByte
                 THEN {[kind |-> "Ok", op |-> "D", key |-> key.data, val |-> << >>,
                        pos |-> key.pos]}
                 ELSE {[kind |-> "Panic", op |-> "X", key |-> << >>, val |-> << >>,
                        pos |-> key.pos]} :
        f \in fill_buf(bytes, pos, HeaderLen, 0, 0)}

\* ReadRecord::read_from with the record it returns written as [op, key, val] of
\* one-byte keys and values.
ReadRecord_read_from(bytes, pos) ==
    {[kind |-> o.kind,
      rec |-> IF o.kind # "Ok" THEN ErrItem
              ELSE IF o.op = "E" THEN Exists(ByteString(o.key), ByteString(o.val))
              ELSE Deleted(ByteString(o.key)),
      pos |-> o.pos] : o \in read_from(bytes, pos)}

\* The next() of the WAL reader on r = [bytes, pos, err, ...]: None once the
\* length the file had at open is consumed or an error was returned; else one
\* read_from, whose Ok(None) before that length is an error too.
Reader_next(r) ==
    IF r.err \/ r.pos = Len(r.bytes)
    THEN {[kind |-> "None", rec |-> ErrItem, pos |-> r.pos]}
    ELSE {[kind |-> IF o.kind = "None" THEN "Err" ELSE o.kind, rec |-> o.rec, pos |-> o.pos] :
             o \in ReadRecord_read_from(r.bytes, r.pos)}

\* The logs writers may have appended, and the files a kill may leave of them:
\* every prefix of the bytes of a log.  Wal::new opens the file it finds with
\* append and create, so the last writer appended the last rd.since records of
\* the log to what the file held when it was opened.
WalRecords == {Exists(k, 1) : k \in Keys} \cup {Deleted(k) : k \in Keys}

WalLogs(m) == UNION {[1..n -> WalRecords] : n \in 0..m}

InitRead ==
    /\ pc = "read"
    /\ memtable = MemTable_new
    /\ walFile = << >>
    /\ walSize = 0
    /\ disk0 = {}
    /\ disk1 = {}
    /\ catalog = NoCatalog
    /\ limit0 = 1
    /\ table_size_limit = TableSizeLimit
    /\ comp = NoComp
    /\ ev = "init"
    /\ ref = [k \in Keys |-> {}]
    /\ snap = NoSnap
    /\ csnap = NoCSnap
    /\ crashes = 0
    /\ fails = 0
    /\ mi = NoMerge
    /\ emitted = << >>
    /\ mdone = "off"
    /\ got = NoGot
    /\ dec = NoRecord
    /\ tb = NoTable
    /\ \E log \in WalLogs(MaxWalRecords) :
          \E n \in 0..Len(EncodeAll(log)), s \in 0..Len(log) :
             rd = [log |-> log, since |-> s, bytes |-> SubSeq(EncodeAll(log), 1, n),
                   pos |-> 0, err |-> FALSE, out |-> << >>, st |-> "run"]

\* One call of next() on the reader; the item it returns is appended to rd.out.
ReaderNext ==
    /\ pc = "read"
    /\ rd.st = "run"
    /\ \E o \in Reader_next(rd) :
          rd' = [rd EXCEPT !.pos = o.pos,
                           !.err = (o.kind = "Err"),
                           !.out = IF o.kind = "Ok" THEN Append(@, o.rec)
                                   ELSE IF o.kind = "Err" THEN Append(@, ErrItem)
                                   ELSE @,
                           !.st = IF o.kind = "None" THEN "end"
                                  ELSE IF o.kind = "Panic" THEN "panic"
                                  ELSE "run"]
    /\ UNCHANGED storeVars
    /\ UNCHANGED mergeVars
    /\ UNCHANGED <<got, dec, tb>>

NextRead == ReaderNext

SpecRead == InitRead /\ [][NextRead]_vars

\* ================================================== one record alone
\* Keys and values here are byte strings: sequences of bytes of 1..MaxByte, at
\* most n long.
ByteStrings(n) == UNION {[1..i -> 1..MaxByte] : i \in 0..n}

\* A variant of write_to that writes the two length fields in the other order.
write_to_mut(op, key, val) ==
    LET v == IF op = "E" THEN val ELSE << >>
        out == <<IF op = "E" THEN ExistsOpByte ELSE DeletedOpByte>>
                   \o U32le(Len(v)) \o U32le(Len(key)) \o key \o v
    IN  [bytes |-> out, written |-> Len(out)]

\* WriteRecord::write_to / ReadRecord::write_to on a writer that takes every
\* byte it is handed (a BufWriter, a Vec<u8>): the bytes written and their count.
write_to(op, key, val) ==
    LET v == IF op = "E" THEN val ELSE << >>
        out == <<IF op = "E" THEN ExistsOpByte ELSE DeletedOpByte>>
                   \o U32le(Len(key)) \o U32le(Len(v)) \o key \o v
    IN  [bytes |-> out, written |-> Len(out)]

\* Bytes that are no op byte.
BadOpBytes == {ExistsOpByte - 1, DeletedOpByte + 1}

InitRecord ==
    /\ pc = "record"
    /\ memtable = MemTable_new
    /\ walFile = << >>
    /\ walSize = 0
    /\ disk0 = {}
    /\ disk1 = {}
    /\ catalog = NoCatalog
    /\ limit0 = 1
    /\ table_size_limit = TableSizeLimit
    /\ comp = NoComp
    /\ ev = "init"
    /\ ref = [k \in Keys |-> {}]
    /\ snap = NoSnap
    /\ csnap = NoCSnap
    /\ crashes = 0
    /\ fails = 0
    /\ mi = NoMerge
    /\ emitted = << >>
    /\ mdone = "off"
    /\ got = NoGot
    /\ rd = NoReader
    /\ tb = NoTable
    /\ \E op \in {"E", "D"}, key \in ByteStrings(MaxStrLen), val \in ByteStrings(MaxStrLen) :
          /\ op = "D" => val = << >>
          /\ dec = [NoRecord EXCEPT !.op = op, !.key = key, !.val = val, !.st = "new"]

\* record.write_to(&mut w) on an empty file.
RecordWrite ==
    /\ pc = "record"
    /\ dec.st = "new"
    /\ LET w == write_to(dec.op, dec.key, dec.val)
       IN  dec' = [dec EXCEPT !.bytes = w.bytes, !.written = w.written, !.st = "written"]
    /\ UNCHANGED storeVars
    /\ UNCHANGED mergeVars
    /\ UNCHANGED <<got, rd, tb>>

\* The file is damaged on disk: its op byte becomes a byte that is no op byte.
RecordCorrupt ==
    /\ pc = "record"
    /\ dec.st = "written"
    /\ ~dec.bad
    /\ \E b \in BadOpBytes : dec' = [dec EXCEPT !.bytes[1] = b, !.bad = TRUE]
    /\ UNCHANGED storeVars
    /\ UNCHANGED mergeVars
    /\ UNCHANGED <<got, rd, tb>>

\* ReadRecord::read_from(&mut r) on the file, from its start.
RecordRead ==
    /\ pc = "record"
    /\ dec.st = "written"
    /\ \E o \in read_from(dec.bytes, 0) :
          dec' = [dec EXCEPT !.out = [op |-> o.op, key |-> o.key, val |-> o.val],
                             !.st = IF o.kind = "Ok" THEN "ok"
                                    ELSE IF o.kind = "None" THEN "none"
                                    ELSE IF o.kind = "Err" THEN "err"
                                    ELSE "panic"]
    /\ UNCHANGED storeVars
    /\ UNCHANGED mergeVars
    /\ UNCHANGED <<got, rd, tb>>

NextRecord ==
    \/ RecordWrite
    \/ RecordCorrupt
    \/ RecordRead

SpecRecord == InitRecord /\ [][NextRecord]_vars

\* ==================================================== one Table alone
\* The sets of records write_records is handed: non-empty, one record per key.
RecordSets ==
    {rs \in SUBSET ({Exists(k, v) : k \in Keys, v \in 1..MaxByte} \cup {Deleted(k) : k \in Keys}) :
        /\ rs # {}
        /\ \A a, b \in rs : a.key = b.key => a = b}

\* sorted_records: the records sorted by key.
SortByKey(rs) ==
    LET ks == SortedKeys({r.key : r \in rs})
    IN  [i \in 1..Len(ks) |-> CHOOSE r \in rs : r.key = ks[i]]

\* The index section: for each record its offset, the length of its key, its key.
RECURSIVE IndexSection(_, _)
IndexSection(rs, i) ==
    IF i > Len(rs) THEN << >>
    ELSE U32le(Len(EncodeAll(SubSeq(rs, 1, i - 1)))) \o U32le(1) \o <<rs[i].key>>
             \o IndexSection(rs, i + 1)

\* Footer::write_to: the last field is the length of the footer, itself included.
Footer_write_to(start_key, end_key, index_start) ==
    LET body == U32le(1) \o <<start_key>> \o U32le(1) \o <<end_key>> \o U32le(index_start)
    IN  body \o U32le(Len(body) + 4)

\* A variant of the file of write_records whose footer gives the end of the
\* index section for index_start.
TableBytes_mut(rs) ==
    LET s == SortByKey(rs)
    IN  EncodeAll(s) \o IndexSection(s, 1)
            \o Footer_write_to(s[1].key, s[Len(s)].key,
                               Len(EncodeAll(s)) + Len(IndexSection(s, 1)))

\* The bytes Catalog::write_records writes to the new file for the records rs:
\* the records, the index, the footer.
TableBytes(rs) ==
    LET s == SortByKey(rs)
    IN  EncodeAll(s) \o IndexSection(s, 1)
            \o Footer_write_to(s[1].key, s[Len(s)].key, Len(EncodeAll(s)))

\* Footer::new_from_reader: [kind, start_key, end_key, index_start, footer_length].
Footer_new_from_reader(bytes) ==
    LET n == Len(bytes)
        fl == U32from(SubSeq(bytes, n - 3, n))
        skl == read_exact(bytes, n - fl, 4)
        sk == read_exact(bytes, skl.pos, U32from(skl.data))
        ekl == read_exact(bytes, sk.pos, 4)
        ek == read_exact(bytes, ekl.pos, U32from(ekl.data))
        is == read_exact(bytes, ek.pos, 4)
        err == [kind |-> "Err", start_key |-> << >>, end_key |-> << >>, index_start |-> 0,
                footer_length |-> 0]
    IN  IF n < 4 THEN err
        ELSE IF fl > n THEN err
        ELSE IF skl.kind = "Err" THEN err
        ELSE IF sk.kind = "Err" THEN err
        ELSE IF ekl.kind = "Err" THEN err
        ELSE IF ek.kind = "Err" THEN err
        ELSE IF is.kind = "Err" THEN err
        ELSE [kind |-> "Ok", start_key |-> sk.data, end_key |-> ek.data,
              index_start |-> U32from(is.data), footer_length |-> fl]

\* IndexIter: the entries [key, offset] it yields from position pos on, until
\* read = index_length; kind "Err" when a read_exact fails.
RECURSIVE IndexIter(_, _, _, _)
IndexIter(bytes, pos, read, index_length) ==
    LET hd == read_exact(bytes, pos, 8)
        key == read_exact(bytes, hd.pos, U32from(SubSeq(hd.data, 5, 8)))
    IN  IF hd.kind = "Err" THEN [kind |-> "Err", entries |-> << >>]
        ELSE IF key.kind = "Err" THEN [kind |-> "Err", entries |-> << >>]
        ELSE LET e == [key |-> ByteString(key.data), offset |-> U32from(SubSeq(hd.data, 1, 4))]
                 rest == IndexIter(bytes, key.pos, read + 8 + Len(key.data), index_length)
             IN  IF read + 8 + Len(key.data) = index_length
                 THEN [kind |-> "Ok", entries |-> <<e>>]
                 ELSE [kind |-> rest.kind, entries |-> <<e>> \o rest.entries]

\* Table::new: the footer, then Index::from_index_reader over the index section;
\* [kind, map, key_start, key_end], map being the offset of every key.
Table_new(bytes) ==
    LET f == Footer_new_from_reader(bytes)
        it == IndexIter(bytes, f.index_start, 0, Len(bytes) - f.index_start - f.footer_length)
        es == it.entries
        err == [kind |-> "Err", map |-> << >>, key_start |-> 0, key_end |-> 0]
    IN  IF f.kind = "Err" THEN err
        ELSE IF f.index_start > Len(bytes) THEN err
        ELSE IF it.kind = "Err" THEN err
        ELSE [kind |-> "Ok",
              map |-> [k \in {es[i].key : i \in DOMAIN es} |->
                          es[Max({i \in DOMAIN es : es[i].key = k})].offset],
              key_start |-> es[1].key,
              key_end |-> es[Len(es)].key]

\* record.size(): the length of the encoding of a record.
ReadRecord_size(r) == RecSize(r)

\* The two callers of Table::get on the Table under test.
Threads == 1..2

\* A call of Table::get: alone tells that no other call moved the position of
\* the file between its seek and its read.
NoGet == [pc |-> "idle", key |-> 0, kind |-> "None", res |-> {}, alone |-> TRUE]

\* The calls in progress other than t lose the position they set.
Disturb(th, t) ==
    [u \in Threads |-> IF u # t /\ th[u].pc = "seeked" THEN [th[u] EXCEPT !.alone = FALSE]
                       ELSE th[u]]
NoIter == [pos |-> 0, read |-> 0, entries_length |-> 0, done |-> FALSE, out |-> << >>]

InitTable ==
    /\ pc = "table"
    /\ memtable = MemTable_new
    /\ walFile = << >>
    /\ walSize = 0
    /\ disk0 = {}
    /\ disk1 = {}
    /\ catalog = NoCatalog
    /\ limit0 = 1
    /\ table_size_limit = TableSizeLimit
    /\ comp = NoComp
    /\ ev = "init"
    /\ ref = [k \in Keys |-> {}]
    /\ snap = NoSnap
    /\ csnap = NoCSnap
    /\ crashes = 0
    /\ fails = 0
    /\ mi = NoMerge
    /\ emitted = << >>
    /\ mdone = "off"
    /\ got = NoGot
    /\ rd = NoReader
    /\ dec = NoRecord
    /\ \E rs \in RecordSets :
          tb = [st |-> "new", recs |-> rs, bytes |-> << >>, index |-> << >>, key_start |-> 0,
                key_end |-> 0, fpos |-> 0, th |-> [t \in Threads |-> NoGet], it |-> NoIter]

\* Catalog::write_records on the records: the file is written, then opened with
\* Table::new.
TableWrite ==
    /\ pc = "table"
    /\ tb.st = "new"
    /\ LET b == TableBytes(tb.recs)
           t == Table_new(b)
       IN  tb' = IF t.kind = "Ok"
                 THEN [tb EXCEPT !.st = "open", !.bytes = b, !.index = t.map,
                                 !.key_start = t.key_start, !.key_end = t.key_end]
                 ELSE [tb EXCEPT !.st = "err", !.bytes = b]
    /\ UNCHANGED storeVars
    /\ UNCHANGED mergeVars
    /\ UNCHANGED <<got, rd, dec>>

\* Table::get(key) by caller t, up to the seek: the offset is looked up in the
\* index (None ends the call), the File is cloned with try_clone, whose handle
\* shares the position of the file with the Table's, and positioned.
TableGetSeek(t, k) ==
    /\ pc = "table"
    /\ tb.st = "open"
    /\ tb.th[t].pc = "idle"
    /\ tb' = IF k \in DOMAIN tb.index
             THEN [tb EXCEPT !.fpos = tb.index[k],
                             !.th = [Disturb(tb.th, t) EXCEPT
                                        ![t] = [NoGet EXCEPT !.pc = "seeked", !.key = k]]]
             ELSE [tb EXCEPT !.th[t] = [NoGet EXCEPT !.pc = "done", !.key = k, !.kind = "Ok"]]
    /\ UNCHANGED storeVars
    /\ UNCHANGED mergeVars
    /\ UNCHANGED <<got, rd, dec>>

\* Table::get by caller t, after the seek: ReadRecord::read_from on the handle.
TableGetRead(t) ==
    /\ pc = "table"
    /\ tb.st = "open"
    /\ tb.th[t].pc = "seeked"
    /\ \E o \in ReadRecord_read_from(tb.bytes, tb.fpos) :
          tb' = [tb EXCEPT !.fpos = o.pos,
                           !.th = [Disturb(tb.th, t) EXCEPT
                                      ![t] = [tb.th[t] EXCEPT
                                                 !.pc = "done", !.kind = o.kind,
                                                 !.res = IF o.kind = "Ok" THEN {o.rec} ELSE {}]]]
    /\ UNCHANGED storeVars
    /\ UNCHANGED mergeVars
    /\ UNCHANGED <<got, rd, dec>>

\* Table::into_iter: the footer gives entries_length, the reader is set to 0.
\* The Table is consumed: no get is in progress.
TableIntoIter ==
    /\ pc = "table"
    /\ tb.st = "open"
    /\ \A t \in Threads : tb.th[t].pc # "seeked"
    /\ LET f == Footer_new_from_reader(tb.bytes)
       IN  tb' = [tb EXCEPT !.st = IF f.kind = "Ok" THEN "scan" ELSE "err",
                            !.it = [NoIter EXCEPT !.entries_length = f.index_start]]
    /\ UNCHANGED storeVars
    /\ UNCHANGED mergeVars
    /\ UNCHANGED <<got, rd, dec>>

\* TableIter::next: None once done; else one read_from, and done is set when
\* read reaches entries_length or the read fails.
TableIterNext ==
    /\ pc = "table"
    /\ tb.st = "scan"
    /\ IF tb.it.done
       THEN tb' = [tb EXCEPT !.st = "scanned"]
       ELSE \E o \in ReadRecord_read_from(tb.bytes, tb.it.pos) :
               tb' = IF o.kind = "Panic" THEN [tb EXCEPT !.st = "panic"]
                     ELSE IF o.kind = "Ok"
                     THEN [tb EXCEPT !.it.pos = o.pos,
                                     !.it.read = @ + ReadRecord_size(o.rec),
                                     !.it.done = (tb.it.read + ReadRecord_size(o.rec)
                                                     = tb.it.entries_length),
                                     !.it.out = Append(@, o.rec)]
                     ELSE [tb EXCEPT !.it.pos = o.pos, !.it.done = TRUE,
                                     !.it.out = Append(@, ErrItem)]
    /\ UNCHANGED storeVars
    /\ UNCHANGED mergeVars
    /\ UNCHANGED <<got, rd, dec>>

NextTable ==
    \/ TableWrite
    \/ \E t \in Threads, k \in Keys : TableGetSeek(t, k)
    \/ \E t \in Threads : TableGetRead(t)
    \/ TableIntoIter
    \/ TableIterNext

SpecTable == InitTable /\ [][NextTable]_vars

\* ================================================ combine_tables alone
\* The size limits combine_tables is called with: the table_size_limit handed to
\* Store::new is any usize, 0 included.
SizeLimits == {0, SmallTableSizeLimit, TableSizeLimit}

InitCombine ==
    /\ pc = "combine"
    /\ memtable = MemTable_new
    /\ walFile = << >>
    /\ walSize = 0
    /\ disk0 = {}
    /\ disk1 = {}
    /\ catalog = NoCatalog
    /\ limit0 = 1
    /\ table_size_limit \in SizeLimits
    /\ comp = NoComp
    /\ ev = "init"
    /\ ref = [k \in Keys |-> {}]
    /\ snap = NoSnap
    /\ csnap = NoCSnap
    /\ crashes = 0
    /\ fails = 0
    /\ mi \in {[ins |-> ins, pos |-> [i \in 1..Len(ins) |-> 1], heap |-> {}] :
                  ins \in MergeInputs(MaxInputs)}
    /\ emitted = << >>
    /\ mdone = "off"
    /\ got = NoGot
    /\ rd = NoReader
    /\ dec = NoRecord
    /\ tb = NoTable

\* combine_tables up to its loop: MergeIter::new and push_iter for every input;
\* comp.stream is what the peekable merge is going to yield.
CombinePush ==
    /\ pc = "combine"
    /\ mdone = "off"
    /\ LET r == MergeIter_new(mi.ins)
       IN  IF r.kind = "Err"
           THEN /\ mdone' = "combine_err"
                /\ UNCHANGED comp
           ELSE /\ mdone' = "loop"
                /\ comp' = [NoComp EXCEPT !.stream = MergeStream(r.m), !.ran = TRUE]
    /\ UNCHANGED <<pc, memtable, walFile, walSize, disk0, disk1, catalog, limit0>>
    /\ UNCHANGED <<table_size_limit, ev, ref, snap, csnap, crashes, fails>>
    /\ UNCHANGED <<mi, emitted>>
    /\ UNCHANGED testVars

\* One iteration of the outer loop of combine_tables: one output file.
CombineTurn ==
    /\ pc = "combine"
    /\ mdone = "loop"
    /\ Cardinality(disk1) < MaxOutputs
    /\ LET c == CombineStep(comp.stream, table_size_limit)
           name == FreshName(disk1)
       IN  /\ disk1' = disk1 \cup {TableFile(name, c.recs, c.st)}
           /\ comp' = [comp EXCEPT !.stream = c.rest, !.outs = @ \cup {name}]
           /\ mdone' = IF c.kind = "More" THEN "loop"
                       ELSE IF c.kind = "Done" THEN "combine_ok"
                       ELSE IF c.kind = "Err" THEN "combine_err"
                       ELSE "combine_panic"
    /\ UNCHANGED <<pc, memtable, walFile, walSize, disk0, catalog, limit0>>
    /\ UNCHANGED <<table_size_limit, ev, ref, snap, csnap, crashes, fails>>
    /\ UNCHANGED <<mi, emitted>>
    /\ UNCHANGED testVars

NextCombine ==
    \/ CombinePush
    \/ CombineTurn

SpecCombine == InitCombine /\ [][NextCombine]_vars

\* ======================================= flushes and compactions alone
\* The files of level 1 after combine_tables wrote the output files of steps,
\* each under a name no file has.
RECURSIVE WriteOutputs(_, _)
WriteOutputs(files, steps) ==
    IF steps = << >> THEN files
    ELSE WriteOutputs(files \cup {TableFile(FreshName(files), Head(steps).recs, Head(steps).st)},
                      Tail(steps))

\* A Store just made by Store::new on an empty directory.
InitCompact ==
    /\ pc = "compact"
    /\ memtable = MemTable_new
    /\ walFile = << >>
    /\ walSize = 0
    /\ disk0 = {}
    /\ disk1 = {}
    /\ catalog = [NoCatalog EXCEPT !.some = TRUE]
    /\ limit0 \in 1..MaxLevel0FileLimit
    /\ table_size_limit \in {SmallTableSizeLimit, TableSizeLimit}
    /\ comp = NoComp
    /\ ev = "init"
    /\ ref = [k \in Keys |-> {}]
    /\ snap = NoSnap
    /\ csnap = NoCSnap
    /\ crashes = 0
    /\ fails = 0
    /\ mi = NoMerge
    /\ emitted = << >>
    /\ mdone = "off"
    /\ got = NoGot
    /\ rd = NoReader
    /\ dec = NoRecord
    /\ tb = NoTable

\* Store::put of every key of S, in key order, then Store::flush_memtable, with no
\* crash and no I/O error: write_records, the WAL writer opened again, the
\* memtable replaced, maybe_compact, and the catalog read again.  A run is
\* followed up to its first kill and reopening (crashes = 0).
PutsAndFlush(S) ==
    /\ pc = "compact"
    /\ crashes = 0
    /\ Len(walFile) + Cardinality(S) <= MaxPuts
    /\ LET ks == SortedKeys(S)
           recs == [i \in 1..Len(ks) |-> Exists(ks[i], Len(walFile) + i)]
           w == Catalog_write_records(catalog, disk0, recs)
           l0 == w.cat.l0
           l1 == w.cat.l1
           steps == CombineTables(MergeStream(MergeIter_new(TablesToCombine(l0, l1)).m),
                                  table_size_limit)
           dels == Range(TablesToDelete(l0, l1))
           outs == WriteOutputs(disk1, steps)
           left == {f \in outs : [level |-> 1, name |-> f.name] \notin dels}
       IN  /\ walFile' = walFile \o recs
           /\ comp' = IF Len(l0) < limit0 THEN NoComp
                      ELSE [NoComp EXCEPT !.ins = CompactionInputs(l0, l1), !.ran = TRUE]
           /\ ref' = [k \in Keys |-> IF k \in S THEN {recs[CHOOSE i \in 1..Len(ks) : ks[i] = k].val}
                                     ELSE ref[k]]
           /\ IF Len(l0) < limit0
              THEN /\ disk0' = w.d0
                   /\ disk1' = disk1
                   /\ \E c \in Catalog_new(w.d0, disk1) : catalog' = c
                   /\ ev' = "flush_ok"
                   /\ pc' = pc
              ELSE IF steps[Len(steps)].kind = "Done"
              THEN /\ Cardinality(left) <= MaxL1Files
                   /\ disk0' = {}
                   /\ disk1' = left
                   /\ \E c \in Catalog_new({}, left) : catalog' = c
                   /\ ev' = "flush_ok"
                   /\ pc' = pc
              ELSE /\ disk0' = w.d0
                   /\ disk1' = outs
                   /\ catalog' = NoCatalog
                   /\ ev' = "panic"
                   /\ pc' = "down"
    /\ snap' = NoSnap
    /\ UNCHANGED <<memtable, walSize, limit0, table_size_limit, csnap>>
    /\ UNCHANGED <<crashes, fails>>
    /\ UNCHANGED mergeVars
    /\ UNCHANGED testVars

\* Store::put of every key of S, then a Store::flush_memtable during which the
\* process is killed once write_records has returned Ok, then Store::new with no
\* I/O error: Catalog::new, the replay of data.wal, its write_records, and the
\* WAL writer.  snap is what get returned for every key before the kill.
FlushCrashReopen(S) ==
    /\ pc = "compact"
    /\ Len(walFile) + Cardinality(S) <= MaxPuts
    /\ crashes < MaxCrash
    /\ LET ks == SortedKeys(S)
           recs == [i \in 1..Len(ks) |-> Exists(ks[i], Len(walFile) + i)]
           w == Catalog_write_records(catalog, disk0, recs)
           before == [k \in Keys |->
                         IF k \in S THEN {recs[CHOOSE i \in 1..Len(ks) : ks[i] = k].val}
                         ELSE {r.val : r \in {x \in Catalog_get(w.cat, k) : x.op = "E"}}]
           log == walFile \o recs
       IN  /\ Cardinality(w.d0) < MaxL0Files
           /\ walFile' = log
           /\ ref' = [k \in Keys |-> IF k \in S THEN before[k] ELSE ref[k]]
           /\ snap' = [at |-> "flush_crash", get |-> before]
           /\ \E c \in Catalog_new(w.d0, disk1) :
                 LET w2 == Catalog_write_records(c, w.d0, SortedRecords(Replay(log).mt))
                 IN  /\ catalog' = w2.cat
                     /\ disk0' = w2.d0
    /\ crashes' = crashes + 1
    /\ comp' = NoComp
    /\ ev' = "wal_open"
    /\ UNCHANGED <<pc, memtable, walSize, disk1, limit0, table_size_limit, csnap, fails>>
    /\ UNCHANGED mergeVars
    /\ UNCHANGED testVars

NextCompact ==
    \/ \E S \in (SUBSET Keys) \ {{}} : PutsAndFlush(S)
    \/ \E S \in (SUBSET Keys) \ {{}} : FlushCrashReopen(S)

SpecCompact == InitCompact /\ [][NextCompact]_vars

\* ============================================================= claims
Names(files) == {f.name : f \in files}

\* Some file of the data directory is gone after the step.
FileRemoved ==
    \/ \E n \in Names(disk0) : n \notin Names(disk0')
    \/ \E n \in Names(disk1) : n \notin Names(disk1')

\* The newest level-0 table of the catalog holds exactly recs and is on disk.
LastTableHolds(recs) ==
    /\ catalog.some
    /\ catalog.l0 # << >>
    /\ catalog.l0[Len(catalog.l0)].recs = recs
    /\ catalog.l0[Len(catalog.l0)] \in disk0
    /\ catalog.l0[Len(catalog.l0)].st = "ok"

\* C1: read-your-writes.  Between calls of a Store that saw no crash and no I/O
\* error, get(k) is the value of the last put(k, _) when no del(k) followed it
\* and None otherwise, whatever flushes and compactions the writes triggered.
C1_ReadYourWrites ==
    (pc = "idle" /\ catalog.some /\ crashes = 0 /\ fails = 0)
        => \A k \in Keys : Store_get(k) = ref[k]

\* C2: crash recovery.  After successful puts and dels, a kill of the process
\* between two calls and a Store::new: Store::new does not panic, and the Store
\* it returns answers get, for every key, as the Store did just before the kill.
C2_CrashRecovery ==
    (snap.at = "crash" /\ fails = 0)
        => /\ ev # "new_panic"
           /\ pc = "idle" => Gets = snap.get

\* C3: the WAL writer is opened again only after write_records returned Ok.
\* Whenever flush_memtable, or Store::new on a non-empty WAL, is about to open
\* the writer, the newest level-0 table holds the records of the memtable (of
\* the replayed WAL) and is on disk; and a write_records that fails leaves the
\* WAL file and the memtable as they were.
C3_WalOpenedAfterWrite ==
    /\ [](pc = "f_wal" => LastTableHolds(SortedRecords(memtable)))
    /\ []((pc = "n_wal" /\ walFile # << >>)
            => LastTableHolds(SortedRecords(MemTable_from(walFile, MemTable_new))))
    /\ [][ev' = "wal_open" => ev \in {"write_ok", "catalog_new"}]_vars
    /\ [][ev' = "write_err" => (walFile' = walFile /\ memtable' = memtable)]_vars

C3_Witness == ev = "wal_open" /\ pc = "f_compact" /\ walFile # << >>

\* C4: the WAL precedes the memtable.  A put or del whose append returns an
\* error leaves the memtable (and the WAL) as it was and ends the call; a put
\* or del that changes the memtable has appended its record to the WAL.
C4_WalPrecedesMemtable ==
    /\ [][ev' = "append_err"
            => (memtable' = memtable /\ walFile' = walFile /\ pc' = "idle")]_vars
    /\ [][(pc = "idle" /\ memtable' # memtable /\ pc' # "down")
            => (/\ Len(walFile') = Len(walFile) + 1
                /\ memtable' = MemTable_from(<<walFile'[Len(walFile')]>>, memtable))]_vars

C4_Witness == ev = "append_err" /\ memtable # MemTable_new

\* C5: a successful flush_memtable changes no read.  Right after it, get(k) is
\* for every key what it was right before it, the memtable is empty and the WAL
\* is empty.
C5_FlushKeepsReads ==
    (ev = "flush_ok" /\ snap.at = "flush")
        => /\ Gets = snap.get
           /\ memtable = MemTable_new
           /\ walFile = << >>

\* C6: compaction preserves what the catalog returns.  On the catalog read again
\* after a successful level-0 compaction, Catalog::get(k) is for every key the
\* record Catalog::get(k) returned before the compaction (stated for the Stores
\* that saw no crash and no I/O error).
C6_CompactionPreservesGet ==
    (ev = "flush_ok" /\ csnap.on /\ crashes = 0 /\ fails = 0)
        => \A k \in Keys : Catalog_get(catalog, k) = csnap.get[k]

\* C7: any two distinct tables of level 1 have disjoint [start_key, end_key]
\* ranges, in every catalog that flushes and compactions alone (no crash, no
\* I/O error) lead to.
C7_Level1Disjoint ==
    (catalog.some /\ crashes = 0 /\ fails = 0)
        => \A i, j \in 1..Len(catalog.l1) :
              i < j => \/ Table_key_end(catalog.l1[i]) < Table_key_start(catalog.l1[j])
                       \/ Table_key_end(catalog.l1[j]) < Table_key_start(catalog.l1[i])

\* C8: a compaction removes a file only once every output table is written:
\* a file goes away only in the deletion loop of compact_level_0, when the merge
\* has no record left and every output file is complete on disk; and when
\* combine_tables returns an error no file goes away and every input is still
\* there.
C8_DeleteAfterOutputs ==
    /\ [][FileRemoved
            => (/\ pc = "c_delete"
                /\ comp.stream = << >>
                /\ comp.outs # {}
                /\ \A n \in comp.outs : \E f \in disk1 : f.name = n /\ f.st = "ok")]_vars
    /\ [][ev' = "combine_err"
            => (/\ ~FileRemoved
                /\ \A d \in comp.ins :
                      d.name \in Names(IF d.level = 0 THEN disk0' ELSE disk1'))]_vars

C8_Witness == ev = "delete_ok" /\ Cardinality(comp.outs) >= 2

C10_MergeKeysAscending ==
    \A i, j \in DOMAIN emitted :
        (i < j /\ emitted[i].op # "X" /\ emitted[j].op # "X")
            => emitted[i].key < emitted[j].key

C10_Witness ==
    /\ mdone = "none"
    /\ Len(emitted) >= 2
    /\ \E a, b \in DOMAIN mi.ins :
          /\ a # b
          /\ \E x \in Range(mi.ins[a].recs), y \in Range(mi.ins[b].recs) :
                x.op # "X" /\ y.op # "X" /\ x.key = y.key

\* The inputs of the MergeIter under test that hold a record for key k, the
\* record input i holds for k, and the newest of the holders: the one of the
\* lowest level and, within level 0, of the highest sequence.
Holders(k) ==
    {i \in DOMAIN mi.ins : \E x \in Range(mi.ins[i].recs) : x.op # "X" /\ x.key = k}

RecOf(i, k) == CHOOSE x \in Range(mi.ins[i].recs) : x.op # "X" /\ x.key = k

Newer(a, b) ==
    \/ mi.ins[a].level < mi.ins[b].level
    \/ /\ mi.ins[a].level = 0
       /\ mi.ins[b].level = 0
       /\ \E sa \in mi.ins[a].seq, sb \in mi.ins[b].seq : sa > sb

Newest(k) == {a \in Holders(k) : \A b \in Holders(k) \ {a} : Newer(a, b)}

NoErrInput == \A i \in DOMAIN mi.ins : \A x \in Range(mi.ins[i].recs) : x.op # "X"

C12_TombstonesPreserved ==
    \A k \in Keys : \A a \in Newest(k) :
        (NoErrInput /\ RecOf(a, k).op = "D")
            => /\ mdone = "none" => \E p \in DOMAIN emitted : emitted[p] = Deleted(k)
               /\ mdone = "combine_ok"
                     => \E f \in disk1 : f.st = "ok" /\ Deleted(k) \in Range(f.recs)

C12_Witness ==
    /\ mdone = "combine_ok"
    /\ Cardinality(disk1) = 2
    /\ \E k \in Keys : \E a \in Newest(k) :
          /\ RecOf(a, k).op = "D"
          /\ \E b \in Holders(k) \ {a} : RecOf(b, k).op = "E"
          /\ \E f \in disk1 : Deleted(k) \in Range(f.recs)

\* C13: merge error propagation.  Once MergeIter::next has returned an Err, it
\* returns nothing further: the Err is the last item it ever returned.
C13_NothingAfterError ==
    \A p \in DOMAIN emitted : emitted[p].op = "X" => p = Len(emitted)

\* The key of the record a successful put or del appended last.
LastKey == walFile[Len(walFile)].key

\* The records the writer appended since it was opened: the tail of the file
\* that accounts for the n bytes the writer counted.
RECURSIVE SuffixOfSize(_, _)
SuffixOfSize(log, n) ==
    IF n <= 0 \/ log = << >> THEN << >>
    ELSE Append(SuffixOfSize(SubSeq(log, 1, Len(log) - 1), n - RecSize(log[Len(log)])),
                log[Len(log)])

\* The keys whose last record in log is Deleted.
DeletedLast(log) ==
    {k \in Keys : \E i \in DOMAIN log :
        /\ log[i] = Deleted(k)
        /\ \A j \in DOMAIN log : (j > i) => log[j].key # k}

\* C14: a tombstone of the memtable ends the lookup.  Right after a del(k) that
\* returned Ok without flushing, get(k) is None also when a level-0 table holds
\* Exists{k, v} (stated for the Stores that saw no crash and no I/O error).
C14_TombstoneEndsLookup ==
    (/\ pc = "idle"
     /\ ev = "del"
     /\ crashes = 0
     /\ fails = 0
     /\ \E r \in Level_get(catalog.l0, LastKey) : r.op = "E")
        => Store_get(LastKey) = {}

\* C15: a del survives the next flush as a record.  Right after del(k) the
\* memtable has an entry for k (its tombstone), and the level-0 table that
\* flush_memtable or the recovery flush of Store::new has just written holds
\* Deleted{k} for every key whose last flushed operation is a del.
C15_DelSurvivesFlush ==
    /\ ev = "del" => LastKey \in DOMAIN memtable
    /\ (ev = "write_ok" /\ pc \in {"f_wal", "n_wal"})
          => \A k \in DeletedLast(IF pc = "n_wal" THEN walFile
                                   ELSE SuffixOfSize(walFile, walSize)) :
                Deleted(k) \in Range(catalog.l0[Len(catalog.l0)].recs)

\* The tables of a catalog in the order a lookup has to try them: level 0 from
\* last-stored to first-stored, then level 1 likewise.
Reverse(s) == [i \in 1..Len(s) |-> s[Len(s) + 1 - i]]

SearchOrder(cat) == Reverse(cat.l0) \o Reverse(cat.l1)

Holds(t, k) == \E r \in Range(t.recs) : r.key = k

\* C16: Catalog::get(k) returns the record for k of the first table that holds
\* k, trying level 0 before level 1 and within a level the tables from
\* last-stored to first-stored; a Deleted record is returned like any other; the
\* result is none exactly when no table holds k.
C16_CatalogGetFirstHit ==
    (pc = "catalog" /\ got.key \in Keys)
        => LET so == SearchOrder(catalog)
               hits == {i \in DOMAIN so : Holds(so[i], got.key)}
           IN  /\ got.res = {} <=> hits = {}
               /\ hits # {}
                     => /\ got.res \subseteq Range(so[Min(hits)].recs)
                        /\ \A r \in got.res : r.key = got.key

C16_Witness ==
    /\ pc = "catalog"
    /\ got.res = {Deleted(got.key)}
    /\ Len(catalog.l0) = 2
    /\ Holds(catalog.l0[1], got.key)
    /\ Holds(catalog.l0[2], got.key)
    /\ catalog.l0[1].recs[1].op = "E"
    /\ \E t \in Range(catalog.l1) : Holds(t, got.key)

\* C17: the flush trigger.  A put or del that appended its record goes on to
\* flush_memtable exactly when wal.size() then exceeds wal_size_limit; and
\* between calls, after a put, a del or a flush that returned Ok, wal.size() is
\* at most wal_size_limit.
C17_FlushTrigger ==
    /\ [][ev' \in {"put", "del"} => (pc' = "f_write" <=> Wal_size' > WalSizeLimit)]_vars
    /\ []((pc = "idle" /\ ev \in {"put", "del", "flush_ok"}) => Wal_size <= WalSizeLimit)

C17_Witness == pc = "f_write" /\ ev \in {"put", "del"} /\ Wal_size > WalSizeLimit

\* C18: the compaction trigger is evaluated after every flush of a memtable into
\* level 0, by flush_memtable and by the recovery flush of Store::new alike: a
\* Store between calls, none of which failed, never has level_0_file_limit or
\* more tables in level 0.
C18_CompactAfterEveryFlush ==
    (pc = "idle" /\ catalog.some /\ fails = 0) => Len(catalog.l0) < limit0

RECURSIVE WholeRecords(_, _)
WholeRecords(log, n) ==
    IF log = << >> \/ RecSize(Head(log)) > n THEN 0
    ELSE 1 + WholeRecords(Tail(log), n - RecSize(Head(log)))

RECURSIVE SizeOf(_)
SizeOf(log) == IF log = << >> THEN 0 ELSE RecSize(Head(log)) + SizeOf(Tail(log))

\* C20: a torn WAL tail is detected.  The replay of a file that holds w whole
\* records returns exactly these; when bytes of a further record follow (part
\* of its header, or its header without all its key and value bytes) it then
\* returns an Err, and when the file ends on the record boundary it ends there.
C20_TornTailDetected ==
    (pc = "read" /\ rd.st = "end")
        => LET w == WholeRecords(rd.log, Len(rd.bytes))
               whole == SubSeq(rd.log, 1, w)
           IN  rd.out = IF Len(rd.bytes) > SizeOf(whole)
                        THEN Append(whole, ErrItem)
                        ELSE whole

C20_Witness ==
    /\ pc = "read"
    /\ rd.st = "end"
    /\ Len(rd.log) = 2
    /\ rd.log[2].op = "E"
    /\ Len(rd.bytes) = RecSize(rd.log[1]) + HeaderLen + 1
    /\ rd.out = <<rd.log[1], ErrItem>>

\* C21: opening the WAL for writing leaves it empty.  Right after the writer was
\* opened on data.wal, by Store::new or by flush_memtable, the file has length 0
\* and size() is 0, whatever the file held before.
C21_WalOpenTruncates ==
    ev = "wal_open" => (walFile = << >> /\ Wal_size = 0)

\* C22: WAL framing.  The replay of a data.wal to which a writer appended N
\* records since it was opened returns exactly those N records, in the order of
\* the appends, each with its operation, key and value, and no error.
C22_WalFraming ==
    (pc = "read" /\ rd.st = "end" /\ rd.bytes = EncodeAll(rd.log))
        => rd.out = SubSeq(rd.log, Len(rd.log) - rd.since + 1, Len(rd.log))

\* C23: a table file that does not open is an error of Store::new.  When the
\* data directory holds a file that Table::new fails on (an empty file, or one
\* without a well-formed footer), Store::new returns the CatalogInitialization
\* error: it does not abort the process and does not accept the file.
C23_BadTableIsError ==
    [][(pc = "down" /\ Catalog_new_panics(disk0, disk1))
          => StoreError(ev') = "CatalogInitialization"]_vars

\* C24: malformed data surfaces as an error.  Decoding a record whose op byte
\* is neither '0' nor '1' returns an error to the caller: ReadRecord::read_from
\* neither panics nor returns a record.
C24_BadOpByteIsError ==
    (pc = "record" /\ dec.bad /\ dec.st # "written") => dec.st = "err"

\* C25: a recovered WAL that cannot be converted is a WalConversion error.  When
\* Store::new has replayed data.wal and write_records then fails to write the
\* level-0 table, the StoreError it returns is WalConversion.
C25_ConversionErrorKind ==
    [][(pc = "down" /\ ev' = "write_err") => StoreError(ev') = "WalConversion"]_vars

\* The length of the encoding of the record under test.
EncodedLen == HeaderLen + Len(dec.key) + (IF dec.op = "E" THEN Len(dec.val) ELSE 0)

\* C26: record round-trip.  For every record (Exists with any key and any value,
\* the empty one included, or Deleted with any key) write_to writes exactly
\* 9 + key_len + val_len bytes (val_len = 0 for Deleted) and returns that count,
\* and read_from on these bytes returns the record.
C26_RecordRoundTrip ==
    (pc = "record" /\ ~dec.bad)
        => /\ dec.st # "new" => (Len(dec.bytes) = EncodedLen /\ dec.written = EncodedLen)
           /\ dec.st \notin {"new", "written"}
                 => /\ dec.st = "ok"
                    /\ dec.out = [op |-> dec.op, key |-> dec.key, val |-> dec.val]

C26_Witness ==
    /\ pc = "record"
    /\ dec.st = "ok"
    /\ ~dec.bad
    /\ dec.op = "E"
    /\ Len(dec.key) = MaxStrLen
    /\ dec.val = << >>
    /\ dec.out = [op |-> "E", key |-> dec.key, val |-> << >>]

\* What Table::get(k) has to return on the table under test.
Written(k) == {r \in tb.recs : r.key = k}

\* C27: table round-trip.  For a non-empty set of records with unique keys,
\* Catalog::write_records returns Ok; the scan of the table yields exactly these
\* records in ascending key order and ends at index_start, the end of the
\* records section; and Table::get(k), called with no other call in between,
\* returns the record of k for a written key and none for any other key.
C27_TableRoundTrip ==
    pc = "table"
        => /\ tb.st \notin {"err", "panic"}
           /\ tb.st = "scan" => tb.it.pos <= tb.it.entries_length
           /\ tb.st = "scanned"
                 => /\ tb.it.out = SortByKey(tb.recs)
                    /\ tb.it.pos = tb.it.entries_length
                    /\ tb.it.entries_length = Len(EncodeAll(SortByKey(tb.recs)))
           /\ \A t \in Threads :
                 (tb.th[t].pc = "done" /\ tb.th[t].alone)
                     => (tb.th[t].kind = "Ok" /\ tb.th[t].res = Written(tb.th[t].key))

C27_Witness ==
    /\ pc = "table"
    /\ tb.st = "scanned"
    /\ Len(tb.it.out) = 2
    /\ tb.it.out[2].op = "D"
    /\ tb.th[1].pc = "done"
    /\ tb.th[1].alone
    /\ tb.th[1].res = {tb.it.out[2]}
    /\ tb.th[2].pc = "done"
    /\ tb.th[2].alone
    /\ tb.th[2].res = {}

\* C28: concurrent reads do not corrupt each other.  When two calls of
\* Table::get on the same open Table interleave their seek and read steps, each
\* returns the record stored for its own key.
C28_ConcurrentGets ==
    pc = "table"
        => \A t \in Threads :
              tb.th[t].pc = "done"
                  => (tb.th[t].kind = "Ok" /\ tb.th[t].res = Written(tb.th[t].key))

\* The largest sequence number among the files of level 0, 0 when there is none.
LargestOnDisk(d0) == IF d0 = {} THEN 0 ELSE Max(Names(d0))

\* C29: level-0 ordering and naming.  Whenever the Store holds a catalog, its
\* level-0 tables have strictly increasing sequence numbers and its watermark is
\* the largest level-0 sequence on disk (0 when level 0 has no file); and every
\* write_records that returns Ok wrote a file named watermark+1 that did not
\* exist before, appended it last to level 0 and incremented watermark by one.
C29_Level0Naming ==
    /\ [](catalog.some =>
            /\ \A i, j \in 1..Len(catalog.l0) :
                  i < j => catalog.l0[i].name < catalog.l0[j].name
            /\ catalog.watermark = LargestOnDisk(disk0))
    /\ [][ev' = "write_ok" =>
            LET before == IF catalog.some THEN catalog.watermark ELSE LargestOnDisk(disk0)
                l0 == catalog'.l0
            IN  /\ catalog'.watermark = before + 1
                /\ before + 1 \notin Names(disk0)
                /\ before + 1 \in Names(disk0')
                /\ l0 # << >>
                /\ l0[Len(l0)].name = before + 1
                /\ catalog.some => l0 = Append(catalog.l0, l0[Len(l0)])]_vars

\* Whether the range [start_key, end_key] of a table and [lo, hi] share a key.
Intersects(t, lo, hi) == Table_key_start(t) <= hi /\ Table_key_end(t) >= lo

\* C30: compaction input selection.  When compact_level_0 starts, with [lo, hi]
\* the union of the level-0 key ranges, a level-1 table is among the inputs of
\* the merge and among the paths to delete exactly when its range intersects
\* [lo, hi] (a range that strictly contains [lo, hi] intersects it), and every
\* key of such a table is in the merge.
C30_SelectsIntersecting ==
    [][ev' = "compact_start" =>
          LET r == CHOOSE x \in Level0Range(catalog.l0) : TRUE
          IN  \A i \in 1..Len(catalog.l1) :
                 LET t == catalog.l1[i]
                     path == [level |-> 1, name |-> t.name]
                 IN  /\ Intersects(t, r.lo, r.hi) <=> path \in comp'.ins
                     /\ Intersects(t, r.lo, r.hi) <=> path \in Range(comp'.dels)
                     /\ Intersects(t, r.lo, r.hi) =>
                           \A j \in 1..Len(t.recs) :
                              \E x \in Range(comp'.stream) : x.key = t.recs[j].key]_vars

\* The keys of the records of a table file.
KeysOf(f) == {f.recs[i].key : i \in 1..Len(f.recs)}

\* C31: the merge of a compaction never has to order two inputs of equal level
\* that carry no sequence and buffer the same key.  In every compaction that puts
\* and flushes lead to, no two level-1 tables among its inputs hold the same key,
\* and the unreachable!() of IterBuf::cmp is not executed.
C31_NoUnorderedInputs ==
    [][(pc = "compact" /\ comp'.ran) =>
          /\ \A f, g \in disk1 :
                (/\ f # g
                 /\ [level |-> 1, name |-> f.name] \in comp'.ins
                 /\ [level |-> 1, name |-> g.name] \in comp'.ins)
                    => KeysOf(f) \cap KeysOf(g) = {}
          /\ ev' # "panic"]_vars

\* C32: every table combine_tables writes has a records section of at most
\* table_size_limit bytes, the index and the footer not counted.
C32_OutputWithinLimit ==
    pc = "combine" => \A f \in disk1 : f.st = "ok" => SizeOf(f.recs) <= table_size_limit

\* C33: every table combine_tables writes holds at least one record, and a merge
\* whose inputs yield no record at all creates no output file.
C33_NoEmptyOutput ==
    pc = "combine" =>
        /\ \A f \in disk1 : f.st = "ok" => f.recs # << >>
        /\ (\A i \in 1..Len(mi.ins) : mi.ins[i].recs = << >>) => disk1 = {}

\* No two inputs of the merge have the same level and lack a sequence: the
\* inputs IterBuf::cmp can always order.
OrderedInputs(ins) ==
    \A i, j \in 1..Len(ins) :
        (i # j /\ ins[i].level = ins[j].level) => (ins[i].seq # {} /\ ins[j].seq # {})

\* C37: MergeIter tolerates inputs that yield no record.  With inputs that
\* IterBuf::cmp can order and that yield no Err, MergeIter::next does not panic,
\* and once it has returned None it has yielded one record for every key of the
\* inputs.
C37_EmptyInputsTolerated ==
    (pc = "merge" /\ OrderedInputs(mi.ins) /\ NoErrInput) =>
        /\ mdone # "panic"
        /\ mdone = "none" =>
              {emitted[i].key : i \in 1..Len(emitted)}
                  = UNION {{mi.ins[i].recs[j].key : j \in 1..Len(mi.ins[i].recs)} :
                              i \in 1..Len(mi.ins)}

\* C38: combine_tables terminates.  Every iteration of its outer loop that
\* starts with a record left in the merge takes at least one item from it,
\* whatever the size limit, so that the loop ends after at most as many
\* iterations as the merge has items.
C38_CombineConsumes ==
    [][(pc = "combine" /\ mdone = "loop" /\ comp.stream # << >>)
          => Len(comp'.stream) < Len(comp.stream)]_vars

\* C34: between Store operations the memtable is the replay of the WAL.  Whenever
\* a Store is between two calls, its memtable is what applying the records of
\* data.wal in order to an empty memtable gives; and right after a flush_memtable
\* that returned Ok both hold nothing.
C34_MemtableIsWalReplay ==
    (pc = "idle" /\ catalog.some) =>
        /\ memtable = MemTable_from(walFile, MemTable_new)
        /\ ev = "flush_ok" => (memtable = MemTable_new /\ walFile = << >>)

\* C35: the Store stays usable after a failed flush.  Whenever flush_memtable has
\* returned, Ok or Err, the Store holds a catalog; and no flush_memtable meets an
\* absent catalog.
C35_CatalogAfterFailedFlush ==
    /\ [](pc = "idle" => catalog.some)
    /\ [][(pc \in {"idle", "f_write"} /\ ev' = "panic") => catalog.some]_vars

\* C36: flushing a memtable with no entries is harmless.  A flush_memtable of an
\* empty memtable, and the recovery flush of a Store::new whose replay of a
\* non-empty WAL gives an empty memtable, do not panic and leave no new file
\* without records in level 0.
C36_EmptyFlushHarmless ==
    [][(\/ /\ pc \in {"idle", "f_write"}
           /\ catalog.some
           /\ memtable = MemTable_new
        \/ /\ pc = "down"
           /\ ~Catalog_new_panics(disk0, disk1)
           /\ walFile # << >>
           /\ Replay(walFile).kind = "Ok"
           /\ Replay(walFile).mt = MemTable_new)
          => /\ ev' \notin {"panic", "new_panic"}
             /\ \A f \in disk0' \ disk0 : f.recs # << >>]_vars

\* What Store::get makes of the record Catalog::get returned.
ValueOf(recs) == {r.val : r \in {x \in recs : x.op = "E"}}

\* C39: a crash during a compaction is safe.  When the process was killed within
\* compact_level_0 (an output file half written, the outputs written, or some of
\* the inputs deleted), Store::new does not panic, and the Store it returns gives
\* for every key what get gave before the compaction started.
C39_CrashInCompaction ==
    csnap.crashed =>
        /\ ev # "new_panic"
        /\ (pc = "idle" /\ ev = "wal_open") =>
              \A k \in Keys : Store_get(k) = ValueOf(csnap.get[k])

\* C40: the replay of the WAL is idempotent across a crash inside a flush.  When
\* the process was killed in flush_memtable after write_records returned Ok and
\* before the WAL writer was opened again, the Store that Store::new returns
\* holds the replay of the same WAL in one more level-0 table, and gives for
\* every key what get gave before the crash.
C40_ReplayIdempotent ==
    (pc = "compact" /\ snap.at = "flush_crash") =>
        /\ catalog.l0 # << >>
        /\ catalog.l0[Len(catalog.l0)].recs = SortedRecords(Replay(walFile).mt)
        /\ Gets = snap.get

====
